---- MODULE Spec2Model ----
(***************************************************************************)
(* A model of the layout engine of the e-ink calendar renderer             *)
(* (layout_renderer.py): the day-box placement loop of render_calendar,    *)
(* the text metrics helpers, the row measurer, the event row renderer,     *)
(* the tag chips and the header fill of a day box.                         *)
(***************************************************************************)
EXTENDS Integers, Sequences, FiniteSets, TLC

VARIABLES
    \* ---- render_calendar: placement pass --------------------------------
    width,          \* canvas width
    columns,        \* opts["columns"]
    height,         \* canvas height
    grid_gap,       \* opts["grid_gap"]
    date_heights,   \* date_heights[d], d = position in ordered_dates (1-based)
    di,             \* number of dates of ordered_dates already processed
    col_tops,       \* running top per column, indexed 0..columns-1
    current_col,    \* the "current column" pointer
    placements,     \* dict date -> (x, y, h)
    \* ---- text metrics helpers, applied to one input ----------------------
    t_text,         \* the text argument
    t_max_width,    \* the max_width argument
    t_max_lines,    \* the max_lines argument
    t_called,       \* which of the helpers have been called on the input
    t_wrap,         \* outcome of _wrap_text_to_lines
    t_ell,          \* outcome of _ellipsize
    \* ---- render_calendar on the events of one date ------------------------
    d_events,       \* groups[d]: the date's events, in input order
    d_max_lines,    \* opts["max_event_lines"]
    d_pc,           \* "new" (before the canvas exists), "measure", "layout"
                    \* (placement and draw pass), "done", "raised"
    d_total,        \* _measure_box_height_for_date: the running total
    d_meas,         \* outcome of _measure_row_height per measured event
    d_cursor,       \* render_events_section: cursor_y
    d_adv,          \* render_events_section: cursor advance per drawn event
    d_dotted,       \* opts["dotted_line_between_events"]
    d_rows,         \* render_events_section: what was drawn per event
    d_show_more,    \* opts["show_more_text"]
    d_more,         \* whether the trailing ellipsis of the box was drawn
    \* ---- draw_event_tags, applied to one input ---------------------------
    g_ev,           \* the event ev
    g_start_x,      \* the start_x argument
    g_max_x,        \* the max_x argument
    g_called,       \* whether the call was made
    g_out,          \* the returned x and the chips drawn
    \* ---- render_events_section on a list of one event --------------------
    r_ev,           \* the event
    r_width,        \* the width argument
    r_max_lines,    \* the max_event_lines argument
    r_called,       \* whether the call was made
    r_out,          \* what was drawn for the event, and the returned cursor
    \* ---- render_calendar: the header of one placed day box ----------------
    h_date_key,     \* the date key of the box
    h_weekend_opt,  \* opts.get("weekend_header_fill_color")
    h_called,       \* whether the header was filled
    h_fill,         \* the fill colour used
    \* ---- initial_fetch_all: the merge of the fetched events ---------------
    m_gcal,         \* fetch_google_calendar_events(...)
    m_tomme,        \* fetch_tommekalender_events(...)
    m_holidays,     \* fetch_google_holiday_events(...)
    m_i,            \* number of events of gcal + tomme + holidays looked at
    m_events,       \* the list "events"
    m_pc,           \* "merge", "done"
    \* ---- render_calendar: the caller's data record ------------------------
    f_events,       \* data["events"]
    f_callable,     \* callable(apply_event_mapping)
    f_map,          \* what apply_event_mapping returns for a name
    f_called,       \* whether render_calendar has got past the mapping block
    \* ---- the colour helpers, applied to one input -------------------------
    k_col,          \* the argument, as [kind, v]
    k_called,       \* which of the helpers have been called on the input
    k_fg,           \* what _fg_for_bg returned
    k_norm,         \* what _normalize_color_input returned
    \* ---- main.py: the orchestrator -----------------------------------------
    o_env,          \* how each call of the run ends: the fetches, the renders, the saves
    o_pc,           \* the call main makes next, or "exit"
    o_data,         \* data: "unset", "fetched" or "empty" ({})
    o_tries,        \* the calls of render_calendar made so far
    o_img,          \* whether img holds an image
    o_saved,        \* whether the JPEG was written
    o_exit          \* the exit status of the process, -1 while it runs

placeVars == <<width, columns, height, grid_gap, date_heights, di, col_tops,
               current_col, placements>>

textVars == <<t_text, t_max_width, t_max_lines, t_called, t_wrap, t_ell>>

dayVars == <<d_events, d_max_lines, d_pc, d_total, d_meas, d_cursor, d_adv,
             d_dotted, d_rows, d_show_more, d_more>>

tagVars == <<g_ev, g_start_x, g_max_x, g_called, g_out>>

rowVars == <<r_ev, r_width, r_max_lines, r_called, r_out>>

hdrVars == <<h_date_key, h_weekend_opt, h_called, h_fill>>

mergeVars == <<m_gcal, m_tomme, m_holidays, m_i, m_events, m_pc>>

\* the variables of the specifications of the data provider and the orchestrator
frameVars == <<f_events, f_callable, f_map, f_called>>

colourVars == <<k_col, k_called, k_fg, k_norm>>

mainVars == <<o_env, o_pc, o_data, o_tries, o_img, o_saved, o_exit>>

lateVars == <<mergeVars, frameVars, colourVars, mainVars>>

\* the variables of the specifications that came after the first three
otherVars == <<g_ev, g_start_x, g_max_x, g_called, g_out,
               r_ev, r_width, r_max_lines, r_called, r_out,
               h_date_key, h_weekend_opt, h_called, h_fill, lateVars>>

vars == <<width, columns, height, grid_gap, date_heights, di, col_tops,
          current_col, placements,
          t_text, t_max_width, t_max_lines, t_called, t_wrap, t_ell,
          d_events, d_max_lines, d_pc, d_total, d_meas, d_cursor, d_adv,
          d_dotted, d_rows, d_show_more, d_more,
          g_ev, g_start_x, g_max_x, g_called, g_out,
          r_ev, r_width, r_max_lines, r_called, r_out,
          h_date_key, h_weekend_opt, h_called, h_fill, lateVars>>

\* the value of the variables a specification does not use
TextIdle ==
    /\ t_text = <<>> /\ t_max_width = 0 /\ t_max_lines = 0
    /\ t_called = {} /\ t_wrap = [raised |-> FALSE, lines |-> <<>>] /\ t_ell = <<>>

DayIdle ==
    /\ d_events = <<>> /\ d_max_lines = 0 /\ d_pc = "idle" /\ d_total = 0
    /\ d_meas = <<>> /\ d_cursor = 0 /\ d_adv = <<>>
    /\ d_dotted = FALSE /\ d_rows = <<>>
    /\ d_show_more = FALSE /\ d_more = FALSE

PlaceIdle ==
    /\ width = 0 /\ columns = 1 /\ height = 0 /\ grid_gap = 0 /\ date_heights = <<>>
    /\ di = 0 /\ col_tops = <<>> /\ current_col = 0 /\ placements = <<>>

TagIdle ==
    /\ g_ev = <<>> /\ g_start_x = 0 /\ g_max_x = 0 /\ g_called = FALSE /\ g_out = <<>>

RowIdle ==
    /\ r_ev = <<>> /\ r_width = 0 /\ r_max_lines = 0 /\ r_called = FALSE /\ r_out = <<>>

HdrIdle ==
    /\ h_date_key = <<>> /\ h_weekend_opt = <<>> /\ h_called = FALSE /\ h_fill = <<>>

MergeIdle ==
    /\ m_gcal = <<>> /\ m_tomme = <<>> /\ m_holidays = <<>>
    /\ m_i = 0 /\ m_events = <<>> /\ m_pc = "idle"

FrameIdle ==
    /\ f_events = <<>> /\ f_callable = FALSE /\ f_map = <<>> /\ f_called = FALSE

ColourIdle ==
    /\ k_col = <<>> /\ k_called = {} /\ k_fg = <<>> /\ k_norm = <<>>

MainIdle ==
    /\ o_env = <<>> /\ o_pc = "idle" /\ o_data = "unset" /\ o_tries = <<>>
    /\ o_img = FALSE /\ o_saved = FALSE /\ o_exit = -1

LateIdle == MergeIdle /\ FrameIdle /\ ColourIdle /\ MainIdle

OtherIdle == TagIdle /\ RowIdle /\ HdrIdle /\ LateIdle

NoLines == [raised |-> FALSE, lines |-> <<>>]

\* ------------------------------------------------------------------------
\* Bounds of the model
\* ------------------------------------------------------------------------
MaxDates == 4
MaxColumns == 3
BoxHeights == {24, 40, 60}
CanvasHeights == {70, 130}
CanvasWidths == {800}
GridGaps == {0, 5}

\* ------------------------------------------------------------------------
\* Program constants
\* ------------------------------------------------------------------------
margin_x == 3
margin_y == 3

RECURSIVE SeqsUpTo(_, _)
SeqsUpTo(S, n) ==
    IF n = 0 THEN {<<>>}
    ELSE LET shorter == SeqsUpTo(S, n - 1)
         IN  shorter \cup {Append(s, e) : s \in {t \in shorter : Len(t) = n - 1}, e \in S}

\* ------------------------------------------------------------------------
\* render_calendar: geometry of the grid
\* ------------------------------------------------------------------------
box_w == (width - margin_x * 2 - (columns - 1) * grid_gap) \div columns

col_x_positions(c) == margin_x + c * (box_w + grid_gap)

bottom_limit == height - 3

\* The inner loop "for col_try in range(current_col, columns)": the first
\* column from col_try on in which a box of height h fits, -1 when none.
RECURSIVE ScanColumnsNoHeight(_, _)
ScanColumnsNoHeight(col_try, h) ==
    IF col_try >= columns THEN -1
    ELSE IF col_tops[col_try] <= bottom_limit THEN col_try
    ELSE ScanColumnsNoHeight(col_try + 1, h)

RECURSIVE ScanColumns(_, _)
ScanColumns(col_try, h) ==
    IF col_try >= columns THEN -1
    ELSE IF col_tops[col_try] + h <= bottom_limit THEN col_try
    ELSE ScanColumns(col_try + 1, h)

\* "col_tops[current_col] = y + h + gap"
NewColumnTopWithoutY(y, h) == h + grid_gap

NewColumnTopNoGap(y, h) == y + h

NewColumnTop(y, h) == y + h + grid_gap

PlacedColumnWrapAround(h) == ScanColumns(0, h)

PlacedColumn(h) == ScanColumns(current_col, h)

InitPlace ==
    /\ width \in CanvasWidths
    /\ columns \in 1..MaxColumns
    /\ height \in CanvasHeights
    /\ grid_gap \in GridGaps
    /\ date_heights \in (SeqsUpTo(BoxHeights, MaxDates) \ {<<>>})
    /\ di = 0
    /\ col_tops = [c \in 0..(columns - 1) |-> margin_y]
    /\ current_col = 0
    /\ placements = <<>>
    /\ TextIdle
    /\ DayIdle
    /\ OtherIdle

\* One iteration of "for d in ordered_dates" in which the box is placed.
PlaceDate ==
    /\ di < Len(date_heights)
    /\ LET d == di + 1
           h == date_heights[d]
           c == PlacedColumn(h)
       IN  /\ c # -1
           /\ current_col' = c
           /\ placements' = [k \in DOMAIN placements \cup {d} |->
                               IF k = d
                               THEN [x |-> col_x_positions(c), y |-> col_tops[c], h |-> h]
                               ELSE placements[k]]
           /\ col_tops' = [col_tops EXCEPT ![c] = NewColumnTop(col_tops[c], h)]
           /\ di' = d
    /\ UNCHANGED <<width, columns, height, grid_gap, date_heights>>
    /\ UNCHANGED textVars
    /\ UNCHANGED dayVars
    /\ UNCHANGED otherVars

\* One iteration in which no column from current_col on has room: the date
\* is skipped.
SkipDate ==
    /\ di < Len(date_heights)
    /\ PlacedColumn(date_heights[di + 1]) = -1
    /\ di' = di + 1
    /\ UNCHANGED <<width, columns, height, grid_gap, date_heights, col_tops,
                   current_col, placements>>
    /\ UNCHANGED textVars
    /\ UNCHANGED dayVars
    /\ UNCHANGED otherVars

NextPlace == PlaceDate \/ SkipDate

SpecPlace == InitPlace /\ [][NextPlace]_vars

\* ------------------------------------------------------------------------
\* Claims about the placement pass (checked under SpecPlace)
\* ------------------------------------------------------------------------
Placed == DOMAIN placements

Dropped == (1..di) \ Placed

\* The columns the date d may go to, described declaratively.
FittingColumns(d) ==
    {c \in current_col..(columns - 1) : col_tops[c] + date_heights[d] <= height - 3}

MinOf(S) == CHOOSE m \in S : \A k \in S : m <= k

\* The column of a placed box, recovered from its x coordinate.
ColumnOf(d) == CHOOSE c \in 0..(columns - 1) : col_x_positions(c) = placements[d].x

\* C1: each date, taken in ascending order, goes to the lowest-indexed
\* column c with current_col <= c < columns and col_tops[c] + boxHeight <=
\* height - 3; the box gets y = col_tops[c], col_tops[c] becomes
\* y + boxHeight + grid_gap and current_col becomes c.
C1_FirstFitPlacement ==
    [][ (di' = di + 1 /\ FittingColumns(di + 1) # {}) =>
          LET d == di + 1
              c == MinOf(FittingColumns(d))
          IN  /\ d \in DOMAIN placements'
              /\ placements'[d] = [x |-> col_x_positions(c), y |-> col_tops[c],
                                   h |-> date_heights[d]]
              /\ col_tops' = [col_tops EXCEPT ![c] = col_tops[c] + date_heights[d] + grid_gap]
              /\ current_col' = c
              /\ \A k \in DOMAIN placements : placements'[k] = placements[k] ]_vars

\* A box was placed in a later column than the one the pointer was at, below
\* an earlier box of that column.
C1_Witness ==
    \E d \in Placed : ColumnOf(d) >= 1 /\ placements[d].y > margin_y

\* C2: every placed box lies inside the canvas vertically.
C2_BoxesInsideCanvas ==
    \A d \in Placed :
        /\ placements[d].y >= 3
        /\ placements[d].y + placements[d].h <= height - 3

\* A box that ends exactly at the bottom limit, while another date was dropped.
C2_Witness ==
    /\ \E d \in Placed : placements[d].y + placements[d].h = height - 3
    /\ Dropped # {}

\* C3: the current-column pointer never decreases; for placed dates d1 < d2,
\* column(d1) <= column(d2), and within one column the later date is lower.
C3_ColumnsMonotonic ==
    /\ [](\A d1, d2 \in Placed :
            d1 < d2 => /\ ColumnOf(d1) <= ColumnOf(d2)
                       /\ ColumnOf(d1) = ColumnOf(d2) => placements[d1].y < placements[d2].y)
    /\ [](\A d \in Placed : ColumnOf(d) <= current_col)
    /\ [][current_col' >= current_col]_vars

\* Two dates share a column and a third one is in a later column.
C3_Witness ==
    \E d1, d2, d3 \in Placed :
        /\ d1 < d2 /\ d2 < d3
        /\ ColumnOf(d1) = ColumnOf(d2)
        /\ ColumnOf(d2) < ColumnOf(d3)

\* C4: when the box fits in no column from current_col on, the date gets no
\* placement and col_tops, current_col and placements are unchanged, even
\* when a column before current_col has room.
C4_DropLeavesStateUnchanged ==
    [][ (di' = di + 1 /\ FittingColumns(di + 1) = {}) =>
          /\ placements' = placements
          /\ col_tops' = col_tops
          /\ current_col' = current_col ]_vars

\* A date was dropped although a column to the left of the pointer had room.
C4_Witness ==
    \E d \in Dropped :
        \E c \in 0..(current_col - 1) : col_tops[c] + date_heights[d] <= height - 3

\* C5 as stated: the placed dates form a prefix of the date order.
C5_PlacedIsPrefix ==
    \A d \in Placed : \A e \in 1..d : e \in Placed

\* C5 amended: after a date is dropped, no later date whose box is at least
\* as high is placed (a later, strictly lower box may still be placed).
C5_NoTallerAfterDrop ==
    \A e \in Dropped : \A d \in Placed :
        d > e => date_heights[d] < date_heights[e]

\* A dropped date followed by a placed, lower one.
C5_Witness ==
    \E e \in Dropped : \E d \in Placed : d > e /\ date_heights[d] < date_heights[e]

\* ------------------------------------------------------------------------
\* Text metrics.  A text is a sequence of characters.  The font is the one
\* render_calendar resolves for both `font` and `small_font` (same path,
\* size max(10, font_small_size) and font_small_size); its glyph metrics
\* stand for what draw.textbbox reports: an advance per character and the
\* vertical extent of its ink.
\* ------------------------------------------------------------------------
\* the ellipsis character U+2026
Ell == "~"

NameChars == {"a", "W", " "}

CharWidth(ch) ==
    CASE ch = "a" -> 6
      [] ch = "W" -> 11
      [] ch = "X" -> 8
      [] ch = " " -> 3
      [] ch = Ell -> 9
      [] ch = "0" -> 7
      [] ch = "9" -> 7
      [] ch = ":" -> 3
      [] OTHER -> 6

\* top and bottom of a character's ink, measured down from the ascender line
CharTop(ch) ==
    CASE ch = "a" -> 3
      [] ch = ":" -> 3
      [] ch = Ell -> 7
      [] OTHER -> 0

CharBottom(ch) == 9

font_size == 12

RECURSIVE SumWidths(_, _)
SumWidths(text, i) ==
    IF i > Len(text) THEN 0 ELSE CharWidth(text[i]) + SumWidths(text, i + 1)

\* _text_width: bbox[2] - bbox[0] of draw.textbbox
text_width(text) == SumWidths(text, 1)

Ink(text) == {i \in 1..Len(text) : text[i] # " "}

\* bbox[3] - bbox[1] of draw.textbbox
text_height(text) ==
    IF Ink(text) = {} THEN 0
    ELSE LET top == CHOOSE t \in {CharTop(text[i]) : i \in Ink(text)} :
                        \A i \in Ink(text) : t <= CharTop(text[i])
             bot == CHOOSE b \in {CharBottom(text[i]) : i \in Ink(text)} :
                        \A i \in Ink(text) : b >= CharBottom(text[i])
         IN  bot - top

\* the height the callers measure for a line: "ln if ln else 'X'"
line_height_of(ln) == IF ln = <<>> THEN text_height(<<"X">>) ELSE text_height(ln)

\* str.split(): the maximal runs of non-whitespace characters
RECURSIVE SplitFrom(_, _, _, _)
SplitFrom(text, i, cur, acc) ==
    IF i > Len(text)
    THEN (IF cur = <<>> THEN acc ELSE Append(acc, cur))
    ELSE IF text[i] = " "
         THEN SplitFrom(text, i + 1, <<>>, IF cur = <<>> THEN acc ELSE Append(acc, cur))
         ELSE SplitFrom(text, i + 1, Append(cur, text[i]), acc)

Split(text) == SplitFrom(text, 1, <<>>, <<>>)

\* " ".join(words[from:])
RECURSIVE JoinFrom(_, _)
JoinFrom(words, from) ==
    IF from > Len(words) THEN <<>>
    ELSE IF from = Len(words) THEN words[from]
    ELSE words[from] \o <<" ">> \o JoinFrom(words, from + 1)

\* _ellipsize: the loop "while t: t = t[:-1]; if fits(t + ell): return t + ell"
RECURSIVE EllipsizeLoop(_, _)
EllipsizeLoop(t, max_width) ==
    IF t = <<>> THEN <<Ell>>
    ELSE LET t2 == SubSeq(t, 1, Len(t) - 1)
         IN  IF text_width(t2 \o <<Ell>>) <= max_width
             THEN t2 \o <<Ell>>
             ELSE EllipsizeLoop(t2, max_width)

ellipsizeAlwaysTrim(text, max_width) == EllipsizeLoop(text, max_width)

ellipsize(text, max_width) ==
    IF text_width(text) <= max_width THEN text ELSE EllipsizeLoop(text, max_width)

\* _wrap_text_to_lines, the hard break of a single long word: "for ch in s"
RECURSIVE BreakWord(_, _, _, _, _)
BreakWord(s, k, piece, lines, max_width) ==
    IF k > Len(s)
    THEN (IF piece # <<>> THEN Append(lines, piece) ELSE lines)
    ELSE IF text_width(Append(piece, s[k])) <= max_width
         THEN BreakWord(s, k + 1, Append(piece, s[k]), lines, max_width)
         ELSE BreakWord(s, k + 1, <<s[k]>>,
                        IF piece # <<>> THEN Append(lines, piece) ELSE lines, max_width)

\* _wrap_text_to_lines, the loop "for w in words"; yields cur and lines as
\* they are when the loop ends or breaks
RECURSIVE WrapWords(_, _, _, _, _, _)
WrapWords(words, i, cur, lines, max_width, max_lines) ==
    IF i > Len(words) THEN [cur |-> cur, lines |-> lines]
    ELSE LET w == words[i]
             candidate == IF cur # <<>> THEN cur \o <<" ">> \o w ELSE w
             fits == text_width(candidate) <= max_width
             cur2 == IF fits THEN candidate ELSE <<>>
             lines2 == IF fits THEN lines
                       ELSE IF cur # <<>> THEN Append(lines, cur)
                       ELSE BreakWord(w, 1, <<>>, lines, max_width)
         IN  IF Len(lines2) >= max_lines
             THEN [cur |-> cur2, lines |-> lines2]
             ELSE WrapWords(words, i + 1, cur2, lines2, max_width, max_lines)

\* _wrap_text_to_lines after the loop, r the loop's cur and lines: the last
\* line is added, the list truncated to max_lines and its last line
\* ellipsized; [raised |-> TRUE] stands for the IndexError of "lines[-1]" on
\* an empty list
WrapFinish(r, max_width, max_lines) ==
    LET l1 == IF r.cur # <<>> /\ Len(r.lines) < max_lines
              THEN Append(r.lines, r.cur) ELSE r.lines
        l2 == IF Len(l1) > max_lines THEN SubSeq(l1, 1, max_lines) ELSE l1
    IN  IF Len(l2) = max_lines
        THEN IF l2 = <<>> THEN [raised |-> TRUE, lines |-> <<>>]
             ELSE IF text_width(l2[Len(l2)]) > max_width
                  THEN [raised |-> FALSE,
                        lines |-> [l2 EXCEPT ![Len(l2)] = ellipsize(l2[Len(l2)], max_width)]]
                  ELSE [raised |-> FALSE, lines |-> l2]
        ELSE [raised |-> FALSE, lines |-> l2]

\* _wrap_text_to_lines
wrap_text_to_lines(text, max_width, max_lines) ==
    IF text = <<>> THEN [raised |-> FALSE, lines |-> <<>>]
    ELSE WrapFinish(WrapWords(Split(text), 1, <<>>, <<>>, max_width, max_lines),
                    max_width, max_lines)

\* ------------------------------------------------------------------------
\* The text helpers applied to one input
\* ------------------------------------------------------------------------
MaxTextLen == 5
MaxLines == 3
WrapWidths == {8, 14, 20, 30}

InitText ==
    /\ t_text \in SeqsUpTo(NameChars, MaxTextLen)
    /\ t_max_width \in WrapWidths
    /\ t_max_lines \in 0..MaxLines
    /\ t_called = {} /\ t_wrap = NoLines /\ t_ell = <<>>
    /\ width = 0 /\ columns = 1 /\ height = 0 /\ grid_gap = 0 /\ date_heights = <<>>
    /\ di = 0 /\ col_tops = <<>> /\ current_col = 0 /\ placements = <<>>
    /\ DayIdle
    /\ OtherIdle

CallWrap ==
    /\ "wrap" \notin t_called
    /\ t_called' = t_called \cup {"wrap"}
    /\ t_wrap' = wrap_text_to_lines(t_text, t_max_width, t_max_lines)
    /\ UNCHANGED <<t_text, t_max_width, t_max_lines, t_ell>>
    /\ UNCHANGED placeVars
    /\ UNCHANGED dayVars
    /\ UNCHANGED otherVars

CallEllipsize ==
    /\ "ellipsize" \notin t_called
    /\ t_called' = t_called \cup {"ellipsize"}
    /\ t_ell' = ellipsize(t_text, t_max_width)
    /\ UNCHANGED <<t_text, t_max_width, t_max_lines, t_wrap>>
    /\ UNCHANGED placeVars
    /\ UNCHANGED dayVars
    /\ UNCHANGED otherVars

NextText == CallWrap \/ CallEllipsize

SpecText == InitText /\ [][NextText]_vars

\* C10 as stated: the call returns (does not raise) at most max_lines lines,
\* every line but the last is no wider than max_width, and when max_lines
\* lines are returned the last one fits or ends with the ellipsis.
C10_WrapWithinLimits ==
    "wrap" \in t_called =>
        /\ ~t_wrap.raised
        /\ Len(t_wrap.lines) <= t_max_lines
        /\ \A i \in 1..(Len(t_wrap.lines) - 1) :
               text_width(t_wrap.lines[i]) <= t_max_width
        /\ (Len(t_wrap.lines) = t_max_lines /\ t_max_lines > 0) =>
               LET last == t_wrap.lines[Len(t_wrap.lines)]
               IN  text_width(last) <= t_max_width \/ last[Len(last)] = Ell

\* every word of the text fits in max_width alone, so no word is hard-broken
AllWordsFit(text, max_width) ==
    \A i \in 1..Len(Split(text)) : text_width(Split(text)[i]) <= max_width

\* C11 as stated: when the result has fewer than max_lines lines (and no
\* word had to be hard-broken), the returned lines joined by spaces contain
\* every word of the input, in order.
C11_NoWordLost ==
    ("wrap" \in t_called /\ ~t_wrap.raised /\ Len(t_wrap.lines) < t_max_lines
        /\ AllWordsFit(t_text, t_max_width)) =>
        Split(JoinFrom(t_wrap.lines, 1)) = Split(t_text)

Prefixes(text) == {SubSeq(text, 1, n) : n \in 0..Len(text)}

\* C12: for max_width at least the width of the ellipsis, _ellipsize returns
\* a string no wider than max_width: the text itself when it fits, otherwise
\* the longest prefix of the text that fits together with the ellipsis,
\* followed by the ellipsis (the bare ellipsis when no character fits).
C12_EllipsizeFits ==
    ("ellipsize" \in t_called /\ t_max_width >= text_width(<<Ell>>)) =>
        /\ text_width(t_ell) <= t_max_width
        /\ text_width(t_text) <= t_max_width => t_ell = t_text
        /\ text_width(t_text) > t_max_width =>
               \E p \in Prefixes(t_text) :
                   /\ t_ell = p \o <<Ell>>
                   /\ \A q \in Prefixes(t_text) :
                          text_width(q \o <<Ell>>) <= t_max_width => Len(q) <= Len(p)

\* A text that does not fit was cut to a non-empty prefix and the ellipsis.
C12_Witness ==
    /\ "ellipsize" \in t_called
    /\ t_max_width >= text_width(<<Ell>>)
    /\ text_width(t_text) > t_max_width
    /\ Len(t_ell) >= 2
    /\ Len(t_ell) < Len(t_text)
    /\ t_ell[Len(t_ell)] = Ell

\* ------------------------------------------------------------------------
\* Rows.  An event is a record [name, time, tags, icon_size] that may also
\* have the fields icon, tag_color_rgb, tag_color_name and color: name is
\* display_text, tags a sequence of records with a text and possibly
\* color_rgb and color_name, icon_size 0 when the event gives none.  Events
\* of the model carry no legacy tag_text.
\* ------------------------------------------------------------------------
event_vspacing == 14
min_icon_padding == 4
event_icon_slot == 20
icon_gap == 6
tag_padding_x == 8
tag_padding_y == 3
tag_gap == 8

Max(a, b) == IF a >= b THEN a ELSE b

\* str.strip()
RECURSIVE Strip(_)
Strip(text) ==
    IF text = <<>> THEN text
    ELSE IF Head(text) = " " THEN Strip(Tail(text))
    ELSE IF text[Len(text)] = " " THEN Strip(SubSeq(text, 1, Len(text) - 1))
    ELSE text

\* ev.get("icon_size") or ev.get("icon_size_px") or max(12, event_icon_slot - 4)
requested_icon_size(ev) ==
    IF ev.icon_size # 0 THEN ev.icon_size ELSE Max(12, event_icon_slot - 4)

\* max(nominal_vspacing, requested_icon_size + min_icon_padding)
base_row(ev) == Max(event_vspacing, requested_icon_size(ev) + min_icon_padding)

\* the loop "for t in tags_for_measure": the chip width reserved on the
\* first line, never more than half_avail
RECURSIVE TagReserveLoop(_, _, _, _, _)
TagReserveLoop(tags, i, tag_total_w, tag_count, half_avail) ==
    IF i > Len(tags) THEN tag_total_w
    ELSE LET txt == Strip(tags[i].text)
             chip_w == text_width(txt) + tag_padding_x * 2
             g == IF tag_count > 0 THEN tag_gap ELSE 0
         IN  IF txt = <<>>
             THEN TagReserveLoop(tags, i + 1, tag_total_w, tag_count, half_avail)
             ELSE IF tag_total_w + chip_w + g > half_avail
                  THEN tag_total_w
                  ELSE TagReserveLoop(tags, i + 1, tag_total_w + g + chip_w,
                                      tag_count + 1, half_avail)

reserved_for_tags(tags, avail) ==
    LET half == avail \div 2
        t == TagReserveLoop(tags, 1, 0, 0, half)
        tag_total_w == IF t > half THEN half ELSE t
    IN  tag_total_w + (IF tag_total_w > 0 THEN 6 ELSE 0)

\* the loop "for idx_w, w in enumerate(words)" that fills the first line
RECURSIVE FirstLineLoop(_, _, _, _)
FirstLineLoop(words, i, first_line, name_max_width) ==
    IF i > Len(words) THEN [first_line |-> first_line, rest_text |-> <<>>]
    ELSE LET cand == IF first_line # <<>> THEN first_line \o <<" ">> \o words[i]
                     ELSE words[i]
         IN  IF text_width(cand) <= name_max_width
             THEN FirstLineLoop(words, i + 1, cand, name_max_width)
             ELSE [first_line |-> first_line, rest_text |-> JoinFrom(words, i)]

\* "if not first_line and words": the first word alone, ellipsized
FirstLineFix(words, f, name_max_width) ==
    IF f.first_line = <<>> /\ words # <<>>
    THEN [first_line |-> ellipsize(words[1], name_max_width),
          rest_text |-> JoinFrom(words, 2)]
    ELSE f

first_line_of(words, name_max_width) ==
    FirstLineFix(words, FirstLineLoop(words, 1, <<>>, name_max_width), name_max_width)

\* "lines = [first_line] + remaining_lines"
LinesOf(first_line, r) == [raised |-> r.raised, lines |-> <<first_line>> \o r.lines]

\* "if rest_text: remaining_lines = _wrap_text_to_lines(...)"
WithRemainingLines(g, rest_width, max_event_lines) ==
    LinesOf(g.first_line,
            IF g.rest_text # <<>>
            THEN wrap_text_to_lines(g.rest_text, rest_width, Max(0, max_event_lines - 1))
            ELSE [raised |-> FALSE, lines |-> <<>>])

\* first line + remaining lines of the name; raised is the IndexError of
\* _wrap_text_to_lines
name_lines(name, name_max_width, rest_width, max_event_lines) ==
    WithRemainingLines(first_line_of(Split(name), name_max_width), rest_width, max_event_lines)

RECURSIVE SumLineHeights(_, _)
SumLineHeights(lines, i) ==
    IF i > Len(lines) THEN 0
    ELSE line_height_of(lines[i]) + SumLineHeights(lines, i + 1)

total_text_h(lines, spacing_px) ==
    SumLineHeights(lines, 1) + (IF Len(lines) > 1 THEN spacing_px * (Len(lines) - 1) ELSE 0)

\* max(10, chip_text_h + tag_padding_y * 2), chip_text_h the height of "X"
chip_h_est == Max(10, text_height(<<"X">>) + tag_padding_y * 2)

\* max(2, int(h * 0.12))
spacing_for(h) == Max(2, (h * 12) \div 100)

\* ------------------------------------------------------------------------
\* Colours and tag chips.  A colour is a triple <<r, g, b>>; <<>> stands for
\* None in a field that holds a triple, "" for None in a field that holds a
\* colour name.  dict.get on a key the record does not have gives None.
\* ------------------------------------------------------------------------
GetRgb(d, k) == IF k \in DOMAIN d THEN d[k] ELSE <<>>

GetName(d, k) == IF k \in DOMAIN d THEN d[k] ELSE ""

\* ImageColor.getrgb on the colour names of the model; <<>> stands for the
\* ValueError it raises on a name it does not know
getrgb(name) ==
    CASE name = "red" -> <<255, 0, 0>>
      [] name = "yellow" -> <<255, 255, 0>>
      [] name = "blue" -> <<0, 0, 255>>
      [] name = "black" -> <<0, 0, 0>>
      [] OTHER -> <<>>

\* _normalize_color_input on a string: ImageColor.getrgb, (0, 0, 0) when it
\* raises
normalize_color_input(col) ==
    IF getrgb(col) = <<>> THEN <<0, 0, 0>> ELSE getrgb(col)

\* the function rl of _fg_for_bg, in units of 1/10000, for the channel
\* values of the model: v / 12.92 if v <= 0.03928 else ((v + 0.055) / 1.055)
\* ** 2.4 with v = c / 255
rl(c) ==
    CASE c = 0 -> 0
      [] c = 128 -> 2159
      [] c = 178 -> 4452
      [] c = 179 -> 4508
      [] c = 200 -> 5776
      [] c = 255 -> 10000

\* l_bg of _fg_for_bg, in units of 1/10000 (rounded down)
l_bg(bg) == (2126 * rl(bg[1]) + 7152 * rl(bg[2]) + 722 * rl(bg[3])) \div 10000

\* _fg_for_bg on a triple: white below luminance 0.45, otherwise white or
\* black by the better contrast ratio (cr_white >= cr_black, that is
\* 1.05 * 0.05 >= (l_bg + 0.05) ** 2)
FgByContrastOnly(bg) ==
    IF (l_bg(bg) + 500) * (l_bg(bg) + 500) <= 10500 * 500
    THEN <<255, 255, 255>>
    ELSE <<0, 0, 0>>

fg_for_bg(bg) ==
    IF l_bg(bg) < 4500 THEN <<255, 255, 255>>
    ELSE IF (l_bg(bg) + 500) * (l_bg(bg) + 500) <= 10500 * 500
         THEN <<255, 255, 255>>
         ELSE <<0, 0, 0>>

\* draw_event_tags, "if bg is None": the event's colour fields, then grey
EventLevelColor(ev) ==
    IF GetRgb(ev, "tag_color_rgb") # <<>> THEN GetRgb(ev, "tag_color_rgb")
    ELSE IF GetName(ev, "tag_color_name") # ""
         THEN normalize_color_input(GetName(ev, "tag_color_name"))
    ELSE IF GetName(ev, "color") # "" THEN normalize_color_input(GetName(ev, "color"))
    ELSE <<200, 200, 200>>

\* draw_event_tags: the background of the chip of a tag
ChipBgEventFirst(tag, ev) ==
    IF EventLevelColor(ev) # <<200, 200, 200>> THEN EventLevelColor(ev)
    ELSE IF GetRgb(tag, "color_rgb") # <<>> THEN GetRgb(tag, "color_rgb")
    ELSE IF GetName(tag, "color_name") # "" THEN normalize_color_input(GetName(tag, "color_name"))
    ELSE <<200, 200, 200>>

ChipBg(tag, ev) ==
    IF GetRgb(tag, "color_rgb") # <<>> THEN GetRgb(tag, "color_rgb")
    ELSE IF GetName(tag, "color_name") # "" THEN normalize_color_input(GetName(tag, "color_name"))
    ELSE EventLevelColor(ev)

\* chip_w = text_w + padding_x * 2
ChipWidth(text) == text_width(text) + tag_padding_x * 2

\* chip_h = max(text_h + padding_y * 2, tag_font.size + 2)
ChipHeight(text) == Max(text_height(text) + tag_padding_y * 2, font_size + 2)

\* the chip drawn for tags[i] at x
Chip(tags, i, x, top_y, ev) ==
    [tag |-> i, left |-> x, top |-> top_y,
     right |-> x + ChipWidth(Strip(tags[i].text)),
     bottom |-> top_y + ChipHeight(Strip(tags[i].text)),
     bg |-> ChipBg(tags[i], ev), fg |-> fg_for_bg(ChipBg(tags[i], ev))]

\* draw_event_tags, the loop "for tag in tags": a tag without text is passed
\* over, the first chip that would end past max_x ends the loop
RECURSIVE TagsLoopSkipOverflow(_, _, _, _, _, _, _)
TagsLoopSkipOverflow(tags, i, x, chips, top_y, ev, max_x) ==
    IF i > Len(tags) THEN [x |-> x, chips |-> chips]
    ELSE IF Strip(tags[i].text) = <<>>
         THEN TagsLoopSkipOverflow(tags, i + 1, x, chips, top_y, ev, max_x)
    ELSE IF x + ChipWidth(Strip(tags[i].text)) > max_x
         THEN TagsLoopSkipOverflow(tags, i + 1, x, chips, top_y, ev, max_x)
    ELSE TagsLoopSkipOverflow(tags, i + 1, x + ChipWidth(Strip(tags[i].text)) + tag_gap,
                              Append(chips, Chip(tags, i, x, top_y, ev)), top_y, ev, max_x)

RECURSIVE TagsLoop(_, _, _, _, _, _, _)
TagsLoop(tags, i, x, chips, top_y, ev, max_x) ==
    IF i > Len(tags) THEN [x |-> x, chips |-> chips]
    ELSE IF Strip(tags[i].text) = <<>>
         THEN TagsLoop(tags, i + 1, x, chips, top_y, ev, max_x)
    ELSE IF x + ChipWidth(Strip(tags[i].text)) > max_x
         THEN [x |-> x, chips |-> chips]
    ELSE TagsLoop(tags, i + 1, x + ChipWidth(Strip(tags[i].text)) + tag_gap,
                  Append(chips, Chip(tags, i, x, top_y, ev)), top_y, ev, max_x)

\* draw_event_tags(draw, start_x, top_y, ev, tag_font, padding_x, padding_y,
\* gap, max_x): the returned x and the chips drawn
draw_event_tags(start_x, top_y, ev, max_x) ==
    TagsLoop(ev.tags, 1, start_x, <<>>, top_y, ev, max_x)

\* text_avail = max(8, inner_text_width - left_reserved)
text_avail(ev, inner_text_width) ==
    LET time_w == IF ev.time # <<>> THEN text_width(ev.time) ELSE 0
        left_reserved == event_icon_slot + icon_gap + (IF time_w # 0 THEN time_w + 6 ELSE 0)
    IN  Max(8, inner_text_width - left_reserved)

\* the row height for the lines nl of the name: max(base_row, total_text_h +
\* min_icon_padding, chip_h_est + min_icon_padding), the spacing taken from
\* the height of the first line
MeasuredRow(ev, nl) ==
    IF nl.raised THEN [raised |-> TRUE, h |-> 0, lines |-> <<>>]
    ELSE [raised |-> FALSE, lines |-> nl.lines,
          h |-> Max(Max(base_row(ev),
                        total_text_h(nl.lines, spacing_for(line_height_of(nl.lines[1])))
                            + min_icon_padding),
                    chip_h_est + min_icon_padding)]

MeasureWithAvail(ev, avail, max_event_lines) ==
    MeasuredRow(ev, name_lines(ev.name, Max(8, avail - reserved_for_tags(ev.tags, avail)),
                               Max(8, avail), max_event_lines))

\* _measure_row_height(event, ..., inner_text_width, ..., max_event_lines)
measure_row_height(ev, inner_text_width, max_event_lines) ==
    MeasureWithAvail(ev, text_avail(ev, inner_text_width), max_event_lines)

\* max_text_width = width - (name_x - x) - 8
max_text_width(ev, w) ==
    w - (event_icon_slot + icon_gap + (IF ev.time # <<>> THEN text_width(ev.time) + 6 ELSE 0)) - 8

\* the row drawn with the lines nl of the name: row_h = max(line_height,
\* total_row_h), the spacing taken from the height of "X"
RenderedRow(ev, nl) ==
    LET line_height == base_row(ev)
        spacing_px == spacing_for(text_height(<<"X">>))
        total_row_h == Max(Max(line_height, total_text_h(nl.lines, spacing_px) + min_icon_padding),
                           chip_h_est + min_icon_padding)
    IN  IF nl.raised
        THEN [raised |-> TRUE, skipped |-> FALSE, advance |-> 0, lines |-> <<>>]
        ELSE [raised |-> FALSE, skipped |-> FALSE,
              advance |-> Max(line_height, total_row_h), lines |-> nl.lines]

\* the row for the width mtw left to the name; below 8 the row is skipped:
\* "cursor_y += line_height; continue"
RenderWithWidthSkipBelowZero(ev, mtw, max_event_lines) ==
    IF mtw < 0
    THEN [raised |-> FALSE, skipped |-> TRUE, advance |-> base_row(ev), lines |-> <<>>]
    ELSE RenderedRow(ev, name_lines(ev.name, Max(8, mtw - reserved_for_tags(ev.tags, mtw)),
                                    mtw, max_event_lines))

RenderWithWidth(ev, mtw, max_event_lines) ==
    IF mtw < 8
    THEN [raised |-> FALSE, skipped |-> TRUE, advance |-> base_row(ev), lines |-> <<>>]
    ELSE RenderedRow(ev, name_lines(ev.name, Max(8, mtw - reserved_for_tags(ev.tags, mtw)),
                                    mtw, max_event_lines))

\* the icon names _load_icon_image resolves (through ICON_NAME_MAP, the icon
\* manager or a file of the icons directory); for any other name it
\* returns None
IconsAvailable == {"cake"}

load_icon_image(icon_name) == icon_name # "" /\ icon_name \in IconsAvailable

\* "if icon_name:": the icon pasted into the slot, or the filled circle of
\* radius ph_r around (ph_cx, ph_cy) when _load_icon_image returns None;
\* coordinates are relative to x and to the row's cursor_y
IconDrawn(ev) ==
    IF GetName(ev, "icon") = "" THEN [kind |-> "none", cx |-> 0, cy |-> 0, r |-> 0]
    ELSE IF load_icon_image(GetName(ev, "icon"))
         THEN [kind |-> "image", cx |-> event_icon_slot \div 2,
               cy |-> base_row(ev) \div 2, r |-> 0]
         ELSE [kind |-> "placeholder", cx |-> event_icon_slot \div 2,
               cy |-> base_row(ev) \div 2,
               r |-> IF Max(3, event_icon_slot \div 4) < 6
                     THEN Max(3, event_icon_slot \div 4) ELSE 6]

\* name_x - x: the icon slot, the gap and the time with its 6 px
name_x(ev) ==
    event_icon_slot + icon_gap + (IF ev.time # <<>> THEN text_width(ev.time) + 6 ELSE 0)

\* tag_top - cursor_y = max(0, (total_row_h - chip_h_est) // 2) - 2, not
\* above the cursor
tag_top(total_row_h) ==
    Max(0, Max(0, (total_row_h - chip_h_est) \div 2) - 2)

\* second_y - cursor_y = line_heights[0] + spacing_px
second_y(lines) == line_height_of(lines[1]) + spacing_for(text_height(<<"X">>))

NoAttempt == [attempted |-> FALSE, start_x |-> 0, top |-> 0, x |-> 0, chips |-> <<>>]

\* a call of draw_event_tags and what it drew
Attempt(start_x, top, out) ==
    [attempted |-> TRUE, start_x |-> start_x, top |-> top, x |-> out.x, chips |-> out.chips]

\* "if len(lines) > 1: ... if not drew_on_first_line: draw_event_tags(draw,
\* name_x, second_y, ...)", drew_on_first_line = (after_tags_x != tag_start_x)
SecondAttemptAlways(ev, w, lines, first) ==
    IF Len(lines) > 1
    THEN Attempt(name_x(ev), second_y(lines),
                 draw_event_tags(name_x(ev), second_y(lines), ev, w - 4))
    ELSE NoAttempt

SecondAttemptForTheRest(ev, w, lines, first) ==
    IF Len(lines) > 1 /\ Len(first.chips) < Len(ev.tags)
    THEN Attempt(name_x(ev), second_y(lines),
                 draw_event_tags(name_x(ev), second_y(lines), ev, w - 4))
    ELSE NoAttempt

SecondAttempt(ev, w, lines, first) ==
    IF Len(lines) > 1 /\ first.x = first.start_x
    THEN Attempt(name_x(ev), second_y(lines),
                 draw_event_tags(name_x(ev), second_y(lines), ev, w - 4))
    ELSE NoAttempt

\* the first attempt: "after_tags_x = draw_event_tags(draw, tag_start_x,
\* tag_top, ev, small_font, ..., max_x=max_right)", tag_start_x = name_x +
\* displayed_name_w + 6 and max_right = x + width - 4
FirstAttempt(ev, w, r) ==
    Attempt(name_x(ev) + text_width(r.lines[1]) + 6, tag_top(r.advance),
            draw_event_tags(name_x(ev) + text_width(r.lines[1]) + 6, tag_top(r.advance),
                            ev, w - 4))

\* the row r with what was drawn besides the name: the icon and the time
\* come before the early "continue" and before _wrap_text_to_lines can
\* raise, the chips after the first line of the name
RowWithAttempts(ev, w, r, first) ==
    [raised |-> r.raised, skipped |-> r.skipped, advance |-> r.advance, lines |-> r.lines,
     icon |-> IconDrawn(ev), time |-> ev.time,
     first_try |-> first, second_try |-> SecondAttempt(ev, w, r.lines, first)]

RowWithTags(ev, w, r) ==
    IF r.raised \/ r.skipped
    THEN [raised |-> r.raised, skipped |-> r.skipped, advance |-> r.advance, lines |-> r.lines,
          icon |-> IconDrawn(ev), time |-> ev.time,
          first_try |-> NoAttempt, second_try |-> NoAttempt]
    ELSE RowWithAttempts(ev, w, r, FirstAttempt(ev, w, r))

\* One iteration of "for i, ev in enumerate(events)" of render_events_section:
\* skipped is the early "continue" of a too narrow row, advance the amount
\* added to cursor_y, raised the IndexError of _wrap_text_to_lines.
render_row(ev, w, max_event_lines) ==
    RowWithTags(ev, w, RenderWithWidth(ev, max_text_width(ev, w), max_event_lines))

\* ------------------------------------------------------------------------
\* render_calendar on one date: measure pass, placement, draw pass
\* ------------------------------------------------------------------------
box_header_height == 26
top_padding == 8
bottom_padding == 8
min_box_height == 48

MaxEvents == 2
MaxEventLines == 2
DayCanvasWidths == {62, 70, 82, 122}
DayCanvasHeights == {80, 480}
DayNames == {<<"a">>, <<"W", " ", "a">>, <<"W", "W", "W">>, <<"W", " ", "W", " ", "W">>}
DayTimes == {<<>>, <<"0", "9", ":", "0", "0">>}
DayTags == {<<>>, <<[text |-> <<"a">>]>>}
DayEvents == [name : DayNames, time : DayTimes, tags : DayTags, icon_size : {0}]

\* inner_w = box_w - 16
inner_w == box_w - 16

\* the conservative height of a row whose measurement raised
FallbackRowHeightNoPadding == Max(event_vspacing, font_size)

FallbackRowHeight == Max(event_vspacing, font_size + min_icon_padding)

\* "try: h = _measure_row_height(...) except Exception: h = fallback"
RowOrFallback(m) ==
    [raised |-> m.raised, h |-> IF m.raised THEN FallbackRowHeight ELSE m.h,
     lines |-> m.lines]

\* return max(min_box_height, total)
BoxHeightNoFloor(total) == total

BoxHeightFloor(total) == Max(min_box_height, total)

\* sorted(evs, key=lambda e: e.get("time") or ""): a stable sort on the time
\* string; CharCode orders the characters a time is written with
CharCode(ch) ==
    CASE ch = "0" -> 48
      [] ch = "1" -> 49
      [] ch = "9" -> 57
      [] ch = ":" -> 58
      [] OTHER -> 97

RECURSIVE StrLess(_, _, _)
StrLess(a, b, i) ==
    IF i > Len(b) THEN FALSE
    ELSE IF i > Len(a) THEN TRUE
    ELSE IF CharCode(a[i]) # CharCode(b[i]) THEN CharCode(a[i]) < CharCode(b[i])
    ELSE StrLess(a, b, i + 1)

\* the positions of evs in sorted order: position k goes after every position
\* already there whose key is not greater
RECURSIVE InsertByTime(_, _, _)
InsertByTime(order, k, evs) ==
    IF order = <<>> THEN <<k>>
    ELSE IF StrLess(evs[k].time, evs[Head(order)].time, 1)
         THEN <<k>> \o order
         ELSE <<Head(order)>> \o InsertByTime(Tail(order), k, evs)

RECURSIVE SortedUpTo(_, _)
SortedUpTo(evs, n) ==
    IF n = 0 THEN <<>> ELSE InsertByTime(SortedUpTo(evs, n - 1), n, evs)

DrawOrder == SortedUpTo(d_events, Len(d_events))

InitDay ==
    /\ width \in DayCanvasWidths
    /\ columns = 1
    /\ height \in DayCanvasHeights
    /\ grid_gap = 5
    /\ date_heights = <<>>
    /\ di = 0
    /\ col_tops = [c \in 0..0 |-> margin_y]
    /\ current_col = 0
    /\ placements = <<>>
    /\ d_events \in SeqsUpTo(DayEvents, MaxEvents)
    /\ d_max_lines \in 1..MaxEventLines
    /\ d_pc = "measure"
    /\ d_total = box_header_height + top_padding + bottom_padding
    /\ d_meas = <<>>
    /\ d_cursor = 0
    /\ d_adv = <<>>
    /\ d_dotted \in BOOLEAN
    /\ d_rows = <<>>
    /\ d_show_more = TRUE
    /\ d_more = FALSE
    /\ TextIdle
    /\ OtherIdle

\* _measure_box_height_for_date: one iteration of "for ev in events"
MeasureEvent ==
    /\ d_pc = "measure"
    /\ Len(d_meas) < Len(d_events)
    /\ LET out == RowOrFallback(measure_row_height(d_events[Len(d_meas) + 1],
                                                   inner_w, d_max_lines))
       IN  /\ d_total' = d_total + out.h
           /\ d_meas' = Append(d_meas, out)
    /\ UNCHANGED <<d_events, d_max_lines, d_pc, d_cursor, d_adv, d_dotted, d_rows,
                   d_show_more, d_more>>
    /\ UNCHANGED placeVars
    /\ UNCHANGED textVars
    /\ UNCHANGED otherVars

\* _measure_box_height_for_date returns; render_calendar stores date_heights[d]
FinishMeasure ==
    /\ d_pc = "measure"
    /\ Len(d_meas) = Len(d_events)
    /\ date_heights' = <<BoxHeightFloor(d_total)>>
    /\ d_pc' = "layout"
    /\ UNCHANGED <<width, columns, height, grid_gap, di, col_tops, current_col, placements>>
    /\ UNCHANGED <<d_events, d_max_lines, d_total, d_meas, d_cursor, d_adv,
                   d_dotted, d_rows, d_show_more, d_more>>
    /\ UNCHANGED textVars
    /\ UNCHANGED otherVars

\* "if dotted_line and i != len(events) - 1", i the 0-based index of the row;
\* a skipped row has left the iteration before
SeparatorAfterEveryRow(dotted_line, i, n, skipped) == dotted_line /\ ~skipped

separator_drawn(dotted_line, i, n, skipped) ==
    dotted_line /\ i # n - 1 /\ ~skipped

\* the effect of the row r on the draw pass: the cursor starts at inner_y =
\* y + box_header_height + top_padding and moves down by the row's advance
DrawnRow(r) ==
    LET inner_y == placements[1].y + box_header_height + top_padding
        cursor_y == IF d_adv = <<>> THEN inner_y ELSE d_cursor
    IN  IF r.raised
        THEN /\ d_pc' = "raised"
             /\ UNCHANGED <<d_cursor, d_adv, d_rows>>
        ELSE /\ d_cursor' = cursor_y + r.advance
             /\ d_adv' = Append(d_adv, r.advance)
             /\ d_rows' = Append(d_rows,
                    [y |-> cursor_y, row |-> r,
                     sep |-> separator_drawn(d_dotted, Len(d_adv), Len(d_events), r.skipped)])
             /\ UNCHANGED d_pc

\* render_events_section: one iteration of "for i, ev in enumerate(events)"
\* for the placed box; an exception of the row leaves render_calendar
DrawEvent ==
    /\ d_pc = "layout"
    /\ di = Len(date_heights)
    /\ 1 \in DOMAIN placements
    /\ Len(d_adv) < Len(d_events)
    /\ DrawnRow(render_row(d_events[DrawOrder[Len(d_adv) + 1]], inner_w, d_max_lines))
    /\ UNCHANGED <<d_events, d_max_lines, d_total, d_meas, d_dotted, d_show_more, d_more>>
    /\ UNCHANGED placeVars
    /\ UNCHANGED textVars
    /\ UNCHANGED otherVars

\* "if cur_y > max_bottom and show_more_text"
MoreDrawnAtBottom(cur_y, max_bottom, show_more_text) ==
    cur_y >= max_bottom /\ show_more_text

more_drawn(cur_y, max_bottom, show_more_text) ==
    cur_y > max_bottom /\ show_more_text

\* the end of the draw loop for the placed box: cur_y is inner_y for a date
\* without events and the cursor returned by render_events_section otherwise
BoxMore ==
    LET y == placements[1].y
        inner_y == y + box_header_height + top_padding
        max_bottom == y + placements[1].h - bottom_padding
        cur_y == IF d_events # <<>> THEN d_cursor ELSE inner_y
    IN  more_drawn(cur_y, max_bottom, d_show_more)

\* the last event of the box has been drawn (or the box has been dropped):
\* the trailing ellipsis is decided and render_calendar returns the image
FinishRender ==
    /\ d_pc = "layout"
    /\ di = Len(date_heights)
    /\ (1 \notin DOMAIN placements \/ Len(d_adv) = Len(d_events))
    /\ d_pc' = "done"
    /\ d_more' = (1 \in DOMAIN placements /\ BoxMore)
    /\ UNCHANGED <<d_events, d_max_lines, d_total, d_meas, d_cursor, d_adv,
                   d_dotted, d_rows, d_show_more>>
    /\ UNCHANGED placeVars
    /\ UNCHANGED textVars
    /\ UNCHANGED otherVars

NextDay == MeasureEvent \/ FinishMeasure \/ PlaceDate \/ SkipDate \/ DrawEvent \/ FinishRender

SpecDay == InitDay /\ [][NextDay]_vars

\* render_calendar on one date with either value of opts["show_more_text"];
\* the events carry no time label
MoreEvents == [name : DayNames, time : {<<>>}, tags : DayTags, icon_size : {0}]

InitMore ==
    /\ width \in DayCanvasWidths
    /\ columns = 1
    /\ height \in DayCanvasHeights
    /\ grid_gap = 5
    /\ date_heights = <<>>
    /\ di = 0
    /\ col_tops = [c \in 0..0 |-> margin_y]
    /\ current_col = 0
    /\ placements = <<>>
    /\ d_events \in SeqsUpTo(MoreEvents, MaxEvents)
    /\ d_max_lines \in 1..MaxEventLines
    /\ d_pc = "measure"
    /\ d_total = box_header_height + top_padding + bottom_padding
    /\ d_meas = <<>>
    /\ d_cursor = 0
    /\ d_adv = <<>>
    /\ d_dotted = TRUE
    /\ d_rows = <<>>
    /\ d_show_more \in BOOLEAN
    /\ d_more = FALSE
    /\ TextIdle
    /\ OtherIdle

SpecMore == InitMore /\ [][NextDay]_vars

\* ------------------------------------------------------------------------
\* Claims about measuring and drawing a date's events (checked under SpecDay)
\* ------------------------------------------------------------------------
Measured == d_pc \in {"layout", "done", "raised"}

RECURSIVE SumMeasured(_, _)
SumMeasured(meas, i) ==
    IF i > Len(meas) THEN 0 ELSE meas[i].h + SumMeasured(meas, i + 1)

\* C6 as stated: for every drawn event whose measurement returned a height,
\* that height equals the amount by which render_events_section advanced its
\* cursor for the event.
C6_MeasureEqualsRender ==
    \A k \in 1..Len(d_adv) :
        ~d_meas[DrawOrder[k]].raised => d_adv[k] = d_meas[DrawOrder[k]].h

\* C7: the box height of a date is max(min_box_height, box_header_height +
\* top_padding + bottom_padding + the sum of the row heights of its events),
\* hence max(min_box_height, header + paddings) for a date without events.
C7_BoxHeightFormula ==
    Measured =>
        /\ date_heights[1] =
               Max(min_box_height,
                   box_header_height + top_padding + bottom_padding + SumMeasured(d_meas, 1))
        /\ d_events = <<>> =>
               date_heights[1] = Max(min_box_height,
                                     box_header_height + top_padding + bottom_padding)

\* A date with two events whose box is higher than the minimum.
C7_Witness ==
    /\ Measured
    /\ Len(d_events) = 2
    /\ date_heights[1] > min_box_height

\* what the box-height loop records for a row whose measurement ended as m
MeasuredAs(rec, m) ==
    /\ rec.raised = m.raised
    /\ m.raised => rec.h = Max(event_vspacing, font_size + min_icon_padding)
    /\ ~m.raised => rec.h = m.h

\* C8: a row whose measurement raises contributes max(event_vspacing, font
\* size + min_icon_padding); the computation goes on, so every event of the
\* date is measured and summed.
C8_FallbackOnMeasureFailure ==
    /\ Measured => Len(d_meas) = Len(d_events)
    /\ d_total = box_header_height + top_padding + bottom_padding + SumMeasured(d_meas, 1)
    /\ \A i \in 1..Len(d_meas) :
           MeasuredAs(d_meas[i], measure_row_height(d_events[i], inner_w, d_max_lines))

\* The measurement of the first event failed and the second one was measured.
C8_Witness ==
    /\ Measured
    /\ Len(d_meas) = 2
    /\ d_meas[1].raised
    /\ ~d_meas[2].raised

\* C9 as stated: render_calendar never raises to its caller.
C9_RenderNeverRaises == d_pc # "raised"

\* the name of ev has no whitespace and is wider than the whole width left
\* to the text of its row (so wider than the width left to the name, in the
\* measurer and in the renderer)
OneLongWord(ev) ==
    /\ ev.name # <<>>
    /\ \A i \in 1..Len(ev.name) : ev.name[i] # " "
    /\ text_width(ev.name) > text_avail(ev, inner_w)

\* C13 as stated: a name without whitespace that is wider than the available
\* width gets more than one line and at most max_event_lines lines, in the
\* measurer and in the renderer (max_event_lines >= 2, or "more than one" and
\* "at most max_event_lines" could not both hold).
C13_LongWordHardBroken ==
    d_max_lines >= 2 =>
        /\ \A i \in 1..Len(d_meas) :
               (OneLongWord(d_events[i]) /\ ~d_meas[i].raised) =>
                   /\ Len(d_meas[i].lines) > 1
                   /\ Len(d_meas[i].lines) <= d_max_lines
        /\ \A k \in 1..Len(d_rows) :
               (OneLongWord(d_events[DrawOrder[k]]) /\ ~d_rows[k].row.skipped) =>
                   /\ Len(d_rows[k].row.lines) > 1
                   /\ Len(d_rows[k].row.lines) <= d_max_lines

\* C14 as stated: the top of each drawn event is at or below the top of the
\* event drawn before it plus that event's measured height, and the cursor
\* returned for the date is the start Y plus the measured heights of its rows.
C14_NoVerticalOverlap ==
    /\ \A k \in 1..(Len(d_rows) - 1) :
           ~d_meas[DrawOrder[k]].raised =>
               d_rows[k + 1].y >= d_rows[k].y + d_meas[DrawOrder[k]].h
    /\ (d_pc = "done" /\ d_rows # <<>> /\ \A i \in 1..Len(d_meas) : ~d_meas[i].raised) =>
           d_cursor = d_rows[1].y + SumMeasured(d_meas, 1)

\* C18: a dotted separator is drawn below a row only when the dotted-line
\* option is on and the row is not the last of the list handed to
\* render_events_section; never after the last event.
C18_SeparatorNotAfterLast ==
    /\ \A k \in 1..Len(d_rows) : d_rows[k].sep => (d_dotted /\ k # Len(d_events))
    /\ Len(d_rows) = Len(d_events) /\ d_rows # <<>> => ~d_rows[Len(d_rows)].sep

\* With the option on, a date of two events was drawn with a separator below
\* the first row and none below the second.
C18_Witness ==
    /\ d_pc = "done"
    /\ d_dotted
    /\ Len(d_rows) = 2
    /\ d_rows[1].sep
    /\ ~d_rows[2].sep

\* ------------------------------------------------------------------------
\* draw_event_tags applied to one event
\* ------------------------------------------------------------------------
MaxTags == 2
TagTexts == {<<"a">>, <<"W", "W", "W">>, <<" ">>}
TagRgbs == {<<>>, <<0, 0, 255>>}
TagColorNames == {"", "red", "nocolor"}
TagMaxXs == {30, 55, 85}
TagsOfModel == [text : TagTexts, color_rgb : TagRgbs, color_name : TagColorNames]
TagEvents ==
    [tags : SeqsUpTo(TagsOfModel, MaxTags), tag_color_rgb : {<<>>, <<255, 255, 0>>},
     tag_color_name : {"", "blue"}, color : {"", "red"}]

InitTags ==
    /\ g_ev \in TagEvents
    /\ g_start_x = 5
    /\ g_max_x \in TagMaxXs
    /\ g_called = FALSE
    /\ g_out = [x |-> 0, chips |-> <<>>]
    /\ PlaceIdle /\ TextIdle /\ DayIdle /\ RowIdle /\ HdrIdle /\ LateIdle

CallDrawTags ==
    /\ ~g_called
    /\ g_called' = TRUE
    /\ g_out' = draw_event_tags(g_start_x, 0, g_ev, g_max_x)
    /\ UNCHANGED <<g_ev, g_start_x, g_max_x>>
    /\ UNCHANGED <<placeVars, textVars, dayVars, rowVars, hdrVars, lateVars>>

NextTags == CallDrawTags

SpecTags == InitTags /\ [][NextTags]_vars

\* the tags that have a text
NonBlank(tags) == {i \in 1..Len(tags) : Strip(tags[i].text) # <<>>}

\* width and gap of the first k chips
RECURSIVE SumChips(_, _)
SumChips(chips, k) ==
    IF k = 0 THEN 0
    ELSE (chips[k].right - chips[k].left) + tag_gap + SumChips(chips, k - 1)

\* width and gap of the chips of the tags of S
RECURSIVE SumTagWidths(_, _)
SumTagWidths(tags, S) ==
    IF S = {} THEN 0
    ELSE LET i == CHOOSE i \in S : TRUE
         IN  text_width(Strip(tags[i].text)) + tag_padding_x * 2 + tag_gap
                 + SumTagWidths(tags, S \ {i})

\* the chip of tag j ends at or before max_x when every tag before it got
\* its chip
FitsInTurn(tags, j) ==
    g_start_x + SumTagWidths(tags, {m \in NonBlank(tags) : m < j})
        + text_width(Strip(tags[j].text)) + tag_padding_x * 2 <= g_max_x

\* C15: the tags are taken in order and the first tag whose chip would end
\* past max_x ends the drawing, for it and all later tags; every drawn chip
\* ends at or before max_x; the returned x is start_x plus the widths and
\* gaps of the drawn chips, so it is start_x exactly when none was drawn.
C15_TagsStopAtFirstOverflow ==
    g_called =>
        LET chips == g_out.chips
            tags == g_ev.tags
        IN  /\ \A k \in 1..Len(chips) :
                   /\ chips[k].tag \in NonBlank(tags)
                   /\ chips[k].right <= g_max_x
                   /\ chips[k].right - chips[k].left =
                          text_width(Strip(tags[chips[k].tag].text)) + tag_padding_x * 2
                   /\ chips[k].left = g_start_x + SumChips(chips, k - 1)
                   /\ k > 1 => chips[k - 1].tag < chips[k].tag
            /\ \A i \in NonBlank(tags) :
                   (\E k \in 1..Len(chips) : chips[k].tag = i) <=>
                       (\A j \in NonBlank(tags) : j <= i => FitsInTurn(tags, j))
            /\ g_out.x = g_start_x + SumChips(chips, Len(chips))
            /\ (g_out.x = g_start_x) <=> (chips = <<>>)

\* No chip was drawn because the first tag's chip does not fit, although the
\* chip of the second tag would fit at start_x.
C15_Witness ==
    /\ g_called
    /\ g_out.chips = <<>>
    /\ g_out.x = g_start_x
    /\ NonBlank(g_ev.tags) = {1, 2}
    /\ g_start_x + ChipWidth(g_ev.tags[2].text) <= g_max_x

\* C16: the background of a drawn chip is the tag's explicit RGB if it has
\* one, else the tag's named colour, else the event's colour (tag_color_rgb,
\* then tag_color_name, then color), else the grey (200, 200, 200); the text
\* colour is what _fg_for_bg gives for that background.
C16_ChipColourPriority ==
    g_called =>
        \A k \in 1..Len(g_out.chips) :
            LET tag == g_ev.tags[g_out.chips[k].tag]
                bg == IF tag.color_rgb # <<>> THEN tag.color_rgb
                      ELSE IF tag.color_name # "" THEN normalize_color_input(tag.color_name)
                      ELSE IF g_ev.tag_color_rgb # <<>> THEN g_ev.tag_color_rgb
                      ELSE IF g_ev.tag_color_name # ""
                           THEN normalize_color_input(g_ev.tag_color_name)
                      ELSE IF g_ev.color # "" THEN normalize_color_input(g_ev.color)
                      ELSE <<200, 200, 200>>
            IN  /\ g_out.chips[k].bg = bg
                /\ g_out.chips[k].fg = fg_for_bg(bg)

\* Two chips of one event: the first has an explicit RGB and a colour name
\* and is drawn in the RGB, the second has neither and is drawn in the
\* event's colour.
C16_Witness ==
    /\ g_called
    /\ Len(g_out.chips) = 2
    /\ g_ev.tags[1].color_rgb = <<0, 0, 255>> /\ g_ev.tags[1].color_name = "red"
    /\ g_out.chips[1].bg = <<0, 0, 255>>
    /\ g_ev.tags[2].color_rgb = <<>> /\ g_ev.tags[2].color_name = ""
    /\ g_ev.tag_color_rgb = <<>> /\ g_ev.tag_color_name = "" /\ g_ev.color = "red"
    /\ g_out.chips[2].bg = <<255, 0, 0>>
    /\ g_out.chips[2].fg = <<255, 255, 255>>

\* ------------------------------------------------------------------------
\* render_events_section on a list of one event, at x = 0 and y = 0
\* ------------------------------------------------------------------------
RowWidths == {40, 48, 60, 100}
RowTags == {<<>>, <<[text |-> <<"a">>]>>, <<[text |-> <<"W", "W", "W">>]>>,
            <<[text |-> <<"a">>], [text |-> <<"a">>]>>}
RowIcons == {"", "cake", "ghost"}
RowEvents == [name : DayNames, time : DayTimes, tags : RowTags, icon : RowIcons,
              icon_size : {0}]

InitRow ==
    /\ r_ev \in RowEvents
    /\ r_width \in RowWidths
    /\ r_max_lines \in 1..MaxEventLines
    /\ r_called = FALSE
    /\ r_out = [raised |-> FALSE, cursor |-> 0]
    /\ PlaceIdle /\ TextIdle /\ DayIdle /\ TagIdle /\ HdrIdle /\ LateIdle

\* the call: the row is drawn and the cursor returned, or the IndexError of
\* the row leaves the function
RowOutcome(r) ==
    IF r.raised THEN [raised |-> TRUE, cursor |-> 0, row |-> r]
    ELSE [raised |-> FALSE, cursor |-> r.advance, row |-> r]

CallRenderRow ==
    /\ ~r_called
    /\ r_called' = TRUE
    /\ r_out' = RowOutcome(render_row(r_ev, r_width, r_max_lines))
    /\ UNCHANGED <<r_ev, r_width, r_max_lines>>
    /\ UNCHANGED <<placeVars, textVars, dayVars, tagVars, hdrVars, lateVars>>

NextRow == CallRenderRow

SpecRow == InitRow /\ [][NextRow]_vars

\* the row got its name drawn: the call returned and the row was not left
\* by the early "continue"
NameDrawn == r_called /\ ~r_out.raised /\ ~r_out.row.skipped

\* C17: the chips are first attempted on the first line, right after the
\* name text; a second attempt, on the second line at the start of the
\* name, is made only if the first one drew no chip and the name has more
\* than one line.
C17_TagsSecondLineOnlyAfterFirstFailed ==
    /\ NameDrawn =>
           LET row == r_out.row
           IN  /\ row.first_try.attempted
               /\ row.first_try.start_x = name_x(r_ev) + text_width(row.lines[1]) + 6
               /\ row.second_try.attempted =>
                      /\ row.first_try.chips = <<>>
                      /\ Len(row.lines) > 1
                      /\ row.second_try.start_x = name_x(r_ev)
                      /\ row.second_try.top > row.first_try.top
    /\ (r_called /\ ~NameDrawn) => ~r_out.row.second_try.attempted

\* The chip did not fit after the first line of the name and was drawn on
\* the second line.
C17_Witness ==
    /\ NameDrawn
    /\ r_ev.tags # <<>>
    /\ r_out.row.first_try.chips = <<>>
    /\ r_out.row.second_try.attempted
    /\ r_out.row.second_try.chips # <<>>

\* C28: the chips of an event are drawn by one call of draw_event_tags at
\* most: when the first-line attempt drew a chip there is no second attempt,
\* so the chips of the row are no more than the event's tags with a text,
\* each drawn once.
C28_TagsOnOneLine ==
    NameDrawn =>
        LET row == r_out.row
            drawn == row.first_try.chips \o row.second_try.chips
        IN  /\ ~(row.first_try.chips # <<>> /\ row.second_try.chips # <<>>)
            /\ row.first_try.chips # <<>> => row.second_try = NoAttempt
            /\ Len(drawn) <= Cardinality(NonBlank(r_ev.tags))
            /\ \A j, k \in 1..Len(drawn) : j < k => drawn[j].tag # drawn[k].tag

\* the first of two tags was drawn after a name of two lines, the second
\* one did not fit and was not drawn at all
C28_Witness ==
    /\ NameDrawn
    /\ Len(r_ev.tags) = 2
    /\ Len(r_out.row.lines) > 1
    /\ Len(r_out.row.first_try.chips) = 1
    /\ ~r_out.row.second_try.attempted

\* C19 as stated: for an event whose icon cannot be resolved the placeholder
\* circle is drawn in the icon slot, the call raises nothing, and time,
\* name, chips and cursor are as for the same event with a resolvable icon.
C19_PlaceholderForMissingIcon ==
    (r_called /\ r_ev.icon # "" /\ r_ev.icon \notin IconsAvailable) =>
        /\ r_out.row.icon.kind = "placeholder"
        /\ ~r_out.raised
        /\ LET other == render_row([r_ev EXCEPT !.icon = "cake"], r_width, r_max_lines)
           IN  /\ ~other.raised
               /\ other.icon.kind = "image"
               /\ r_out.cursor = other.advance
               /\ r_out.row.time = other.time
               /\ r_out.row.lines = other.lines
               /\ r_out.row.first_try = other.first_try
               /\ r_out.row.second_try = other.second_try

\* ------------------------------------------------------------------------
\* render_calendar: the header fill of a placed day box.  A date key is a
\* string, a sequence of characters.
\* ------------------------------------------------------------------------
Digits == <<"0", "1", "2", "3", "4", "5", "6", "7", "8", "9">>

IsDigit(ch) == \E i \in 1..10 : Digits[i] = ch

DigitVal(ch) == (CHOOSE i \in 1..10 : Digits[i] = ch) - 1

AllDigits(s) == s # <<>> /\ \A i \in 1..Len(s) : IsDigit(s[i])

\* int() of a string of digits
RECURSIVE ParseNat(_)
ParseNat(s) ==
    IF s = <<>> THEN 0 ELSE ParseNat(SubSeq(s, 1, Len(s) - 1)) * 10 + DigitVal(s[Len(s)])

\* the fields of s between "-" characters
RECURSIVE SplitDashFrom(_, _, _, _)
SplitDashFrom(s, i, cur, acc) ==
    IF i > Len(s) THEN Append(acc, cur)
    ELSE IF s[i] = "-" THEN SplitDashFrom(s, i + 1, <<>>, Append(acc, cur))
    ELSE SplitDashFrom(s, i + 1, Append(cur, s[i]), acc)

SplitDash(s) == SplitDashFrom(s, 1, <<>>, <<>>)

is_leap(y) == y % 4 = 0 /\ (y % 100 # 0 \/ y % 400 = 0)

days_in_month(y, m) ==
    CASE m \in {1, 3, 5, 7, 8, 10, 12} -> 31
      [] m \in {4, 6, 9, 11} -> 30
      [] m = 2 -> IF is_leap(y) THEN 29 ELSE 28

\* the datetime constructor accepts the date
ValidDate(y, m, d) ==
    y \in 1..9999 /\ m \in 1..12 /\ d >= 1 /\ d <= days_in_month(y, m)

NoDate == [ok |-> FALSE, y |-> 0, m |-> 0, d |-> 0]

DateOf(y, m, d) == IF ValidDate(y, m, d) THEN [ok |-> TRUE, y |-> y, m |-> m, d |-> d] ELSE NoDate

\* datetime.fromisoformat on a date without a time: YYYY-MM-DD, every
\* field of full length; ok = FALSE stands for the ValueError
fromisoformat(s) ==
    IF /\ Len(s) = 10 /\ s[5] = "-" /\ s[8] = "-"
       /\ AllDigits(SubSeq(s, 1, 4)) /\ AllDigits(SubSeq(s, 6, 7)) /\ AllDigits(SubSeq(s, 9, 10))
    THEN DateOf(ParseNat(SubSeq(s, 1, 4)), ParseNat(SubSeq(s, 6, 7)), ParseNat(SubSeq(s, 9, 10)))
    ELSE NoDate

\* the fields strptime accepts: %Y four digits, %m and %d one or two
IsYearField(f) == Len(f) = 4 /\ AllDigits(f)

IsShortField(f) == Len(f) \in {1, 2} /\ AllDigits(f)

\* datetime.strptime(s, '%Y-%m-%d')
strptime_ymd(s) ==
    LET f == SplitDash(s)
    IN  IF Len(f) = 3 /\ IsYearField(f[1]) /\ IsShortField(f[2]) /\ IsShortField(f[3])
        THEN DateOf(ParseNat(f[1]), ParseNat(f[2]), ParseNat(f[3]))
        ELSE NoDate

\* datetime.strptime(s, '%d-%m-%Y')
strptime_dmy(s) ==
    LET f == SplitDash(s)
    IN  IF Len(f) = 3 /\ IsShortField(f[1]) /\ IsShortField(f[2]) /\ IsYearField(f[3])
        THEN DateOf(ParseNat(f[3]), ParseNat(f[2]), ParseNat(f[1]))
        ELSE NoDate

\* str(date_key).split()[0]; <<>> stands for the IndexError on a key
\* without any token, which no format accepts either
FirstToken(s) == IF Split(s) = <<>> THEN <<>> ELSE Split(s)[1]

\* the chain of try blocks: fromisoformat, then '%Y-%m-%d', then '%d-%m-%Y',
\* then dt = None
parse_date_key(s) ==
    IF fromisoformat(s).ok THEN fromisoformat(s)
    ELSE IF strptime_ymd(FirstToken(s)).ok THEN strptime_ymd(FirstToken(s))
    ELSE strptime_dmy(FirstToken(s))

\* date.toordinal: the days before the year, before the month, and the day
RECURSIVE days_before_month(_, _)
days_before_month(y, m) ==
    IF m = 1 THEN 0 ELSE days_before_month(y, m - 1) + days_in_month(y, m - 1)

toordinal(y, m, d) ==
    (y - 1) * 365 + ((y - 1) \div 4) - ((y - 1) \div 100) + ((y - 1) \div 400)
        + days_before_month(y, m) + d

\* date.weekday(): Monday is 0, Sunday is 6
weekday(dt) == (toordinal(dt.y, dt.m, dt.d) + 6) % 7

\* opts.get("header_fill_color", (255, 153, 0)), normalized
header_fill_rgb == <<255, 153, 0>>

\* _normalize_bg on the weekend colour, without the alpha: a triple as it
\* is, a colour name through ImageColor.getrgb, white when that raises
normalize_bg(col) ==
    IF col.kind = "rgb" THEN col.v
    ELSE IF getrgb(col.v) # <<>> THEN getrgb(col.v)
    ELSE <<255, 255, 255>>

\* "if weekend_col is None: weekend_col = (255, 0, 0)"
weekend_fill(opt) ==
    normalize_bg(IF opt.kind = "none" THEN [kind |-> "rgb", v |-> <<255, 0, 0>>] ELSE opt)

\* draw_header_fill: "if dt is not None and dt.weekday() >= 5"
HeaderFillSundayOnly(date_key, opt) ==
    IF parse_date_key(date_key).ok /\ weekday(parse_date_key(date_key)) >= 6
    THEN weekend_fill(opt)
    ELSE header_fill_rgb

HeaderFill(date_key, opt) ==
    IF parse_date_key(date_key).ok /\ weekday(parse_date_key(date_key)) >= 5
    THEN weekend_fill(opt)
    ELSE header_fill_rgb

\* the date keys of the model: dates written as YYYY-MM-DD, as Y-M-D without
\* leading zeros and as DD-MM-YYYY, and keys that are no date
Fmt2(n) == <<Digits[(n \div 10) + 1], Digits[(n % 10) + 1]>>

FmtShort(n) == IF n < 10 THEN <<Digits[n + 1]>> ELSE Fmt2(n)

Fmt4(n) == Fmt2(n \div 100) \o Fmt2(n % 100)

KeyIso(y, m, d) == Fmt4(y) \o <<"-">> \o Fmt2(m) \o <<"-">> \o Fmt2(d)

KeyShort(y, m, d) == Fmt4(y) \o <<"-">> \o FmtShort(m) \o <<"-">> \o FmtShort(d)

KeyDmy(y, m, d) == Fmt2(d) \o <<"-">> \o Fmt2(m) \o <<"-">> \o Fmt4(y)

KeyYears == {2023, 2024}
KeyMonths == {2, 6}
KeyDays == {1, 2, 3, 29, 30}
DateKeys ==
    {KeyIso(y, m, d) : y \in KeyYears, m \in KeyMonths, d \in KeyDays}
        \cup {KeyShort(y, m, d) : y \in KeyYears, m \in KeyMonths, d \in KeyDays}
        \cup {KeyDmy(y, m, d) : y \in KeyYears, m \in KeyMonths, d \in KeyDays}
        \cup {<<"u", "n", "k", "n", "o", "w", "n">>, <<>>}
WeekendOpts ==
    {[kind |-> "none", v |-> <<>>], [kind |-> "rgb", v |-> <<0, 0, 255>>]}
        \cup {[kind |-> "name", v |-> "yellow"]}

InitHeader ==
    /\ h_date_key \in DateKeys
    /\ h_weekend_opt \in WeekendOpts
    /\ h_called = FALSE
    /\ h_fill = <<>>
    /\ PlaceIdle /\ TextIdle /\ DayIdle /\ TagIdle /\ RowIdle /\ LateIdle

\* one iteration of "for date_key, (x, y, box_h) in placements.items()": the
\* header rectangle is filled
FillHeader ==
    /\ ~h_called
    /\ h_called' = TRUE
    /\ h_fill' = HeaderFill(h_date_key, h_weekend_opt)
    /\ UNCHANGED <<h_date_key, h_weekend_opt>>
    /\ UNCHANGED <<placeVars, textVars, dayVars, tagVars, rowVars, lateVars>>

NextHeader == FillHeader

SpecHeader == InitHeader /\ [][NextHeader]_vars

\* the day of the week by Zeller's congruence: 0 is Saturday, 1 Sunday
Zeller(y, m, d) ==
    LET yy == IF m < 3 THEN y - 1 ELSE y
        mm == IF m < 3 THEN m + 12 ELSE m
    IN  (d + ((13 * (mm + 1)) \div 5) + (yy % 100) + ((yy % 100) \div 4)
            + ((yy \div 100) \div 4) + 5 * (yy \div 100)) % 7

\* the key is one of the three ways of writing a Saturday or a Sunday
IsWeekendKey(key) ==
    \E y \in 2000..2030, m \in 1..12, d \in 1..31 :
        /\ d <= days_in_month(y, m)
        /\ Zeller(y, m, d) \in {0, 1}
        /\ key \in {KeyIso(y, m, d), KeyShort(y, m, d), KeyDmy(y, m, d)}

\* C20: the header of a placed box is filled with the weekend colour (the
\* option weekend_header_fill_color, red when it is absent) exactly when the
\* date key is a Saturday or a Sunday; for any other date, and for a key
\* that is no date, with the configured header fill colour.
C20_WeekendHeaderFill ==
    h_called =>
        /\ IsWeekendKey(h_date_key) =>
               h_fill = (CASE h_weekend_opt.kind = "none" -> <<255, 0, 0>>
                           [] h_weekend_opt.kind = "rgb" -> h_weekend_opt.v
                           [] h_weekend_opt.kind = "name" -> <<255, 255, 0>>)
        /\ ~IsWeekendKey(h_date_key) => h_fill = header_fill_rgb

\* Saturday 1 June 2024, written day first, was filled in the default red.
C20_Witness ==
    /\ h_called
    /\ h_date_key = <<"0", "1", "-", "0", "6", "-", "2", "0", "2", "4">>
    /\ h_weekend_opt.kind = "none"
    /\ h_fill = <<255, 0, 0>>

\* ------------------------------------------------------------------------
\* A further claim about the rows of a day box (checked under SpecDay)
\* ------------------------------------------------------------------------
\* the width left for the name of ev in the box: the inner width minus the
\* icon slot, the icon gap, the time label with its 6 pixels of distance
\* and the safety margin of 8
WidthLeftForName(ev) ==
    inner_w - event_icon_slot - icon_gap
        - (IF ev.time # <<>> THEN text_width(ev.time) + 6 ELSE 0) - 8

\* C29: for an event whose name is left less than 8 pixels of width neither
\* the name nor a chip nor the separator is drawn, the cursor moves down by
\* max(event_vspacing, icon size + min_icon_padding) exactly, and the loop
\* goes on with the next event at the new cursor.
C29_NarrowRowSkipped ==
    \A k \in 1..Len(d_rows) :
        LET ev == d_events[DrawOrder[k]]
            step == Max(event_vspacing, requested_icon_size(ev) + min_icon_padding)
        IN  WidthLeftForName(ev) < 8 =>
                /\ d_rows[k].row.lines = <<>>
                /\ d_rows[k].row.first_try = NoAttempt
                /\ d_rows[k].row.second_try = NoAttempt
                /\ ~d_rows[k].sep
                /\ d_rows[k].row.advance = step
                /\ k < Len(d_rows) => d_rows[k + 1].y = d_rows[k].y + step
                /\ k = Len(d_rows) => d_cursor = d_rows[k].y + step
                /\ d_pc = "done" => Len(d_rows) = Len(d_events)

\* a row with a time label was skipped, with the separators switched on,
\* and the next event was drawn below it
C29_Witness ==
    /\ d_pc = "done"
    /\ d_dotted
    /\ Len(d_rows) = 2
    /\ d_events[DrawOrder[1]].time # <<>>
    /\ WidthLeftForName(d_events[DrawOrder[1]]) < 8
    /\ d_rows[1].row.skipped
    /\ d_rows[2].y = d_rows[1].y + 20

\* ------------------------------------------------------------------------
\* A further claim about the placement loop (checked under SpecPlace)
\* ------------------------------------------------------------------------
\* the placed dates before d that share its column
EarlierInColumn(d) == {a \in Placed : a < d /\ ColumnOf(a) = ColumnOf(d)}

\* C27: of two boxes placed in the same column the later one starts at or
\* below the bottom of the earlier one plus grid_gap; the first box of a
\* column starts at y = 3; no column's running top ever decreases.
C27_NoOverlapInColumn ==
    /\ [](\A b \in Placed : \A a \in EarlierInColumn(b) :
            placements[b].y >= placements[a].y + placements[a].h + grid_gap)
    /\ [](\A d \in Placed : EarlierInColumn(d) = {} => placements[d].y = 3)
    /\ [][\A c \in DOMAIN col_tops : col_tops'[c] >= col_tops[c]]_vars

\* three boxes in one column and a first box in the next one
C27_Witness ==
    /\ grid_gap = 5
    /\ \E a, b, c, d \in Placed :
          /\ a < b /\ b < c /\ c < d
          /\ ColumnOf(a) = ColumnOf(b) /\ ColumnOf(b) = ColumnOf(c)
          /\ ColumnOf(d) # ColumnOf(c)
          /\ placements[c].y = placements[a].y + placements[a].h + placements[b].h + 10

\* ------------------------------------------------------------------------
\* Claims about the end of a day box (checked under SpecMore)
\* ------------------------------------------------------------------------
\* the cursor after the rows drawn so far, read off the rows themselves
CursorAfterRows ==
    IF d_rows = <<>>
    THEN placements[1].y + box_header_height + top_padding
    ELSE d_rows[Len(d_rows)].y + d_rows[Len(d_rows)].row.advance

\* C21: once the events of a placed day box are drawn, the trailing ellipsis
\* is drawn exactly when show_more_text is on and the cursor after the last
\* row is below the bottom of the box minus the bottom padding; it is never
\* drawn earlier, and the step that decides it leaves the measured box
\* height, the placements and the column tops as they were.
C21_MoreExactlyOnOverflow ==
    /\ [](d_pc # "done" => ~d_more)
    /\ []((d_pc = "done" /\ 1 \in DOMAIN placements) =>
            (d_more <=>
                (d_show_more /\
                 CursorAfterRows > placements[1].y + date_heights[1] - bottom_padding)))
    /\ []((d_pc = "done" /\ 1 \notin DOMAIN placements) => ~d_more)
    /\ [][d_pc' = "done" =>
            (placements' = placements /\ date_heights' = date_heights
             /\ col_tops' = col_tops)]_vars

C21_Witness ==
    /\ d_pc = "done"
    /\ d_more
    /\ Len(d_rows) = 2
    /\ CursorAfterRows > placements[1].y + date_heights[1] - bottom_padding

\* ------------------------------------------------------------------------
\* initial_fetch_all: the merge of calendar, waste-collection and holiday
\* events (data_provider.py)
\* ------------------------------------------------------------------------
MaxGcal == 2
MaxOther == 1

\* dates are ISO strings of one month, written here by their day; a fetched
\* event always carries a time string, "" for an all-day event, and only
\* calendar events carry a clock time
MergeDates == {<<"0", "9">>, <<"1", "0">>}
MergeNames == {"a", "b"}
GcalEvents == [date : MergeDates, name : MergeNames, time : DayTimes, original_name : {"g"}]
TommeEvents == [date : MergeDates, name : MergeNames, time : {<<>>}, original_name : {"t"}]
HolidayEvents == [date : MergeDates, name : MergeNames, time : {<<>>}, original_name : {"h"}]

\* gcal + tomme + holidays
MergeInput == m_gcal \o m_tomme \o m_holidays

\* x['date'] == e['date'] and x['name'] == e['name'] and
\* x.get('time', '') == e.get('time', '')
SameEventNoTime(x, e) == x.date = e.date /\ x.name = e.name

same_event(x, e) == x.date = e.date /\ x.name = e.name /\ x.time = e.time

\* the order of the tuples (e['date'], e.get('time', ''))
key_less(a, b) ==
    \/ StrLess(a.date, b.date, 1)
    \/ (a.date = b.date /\ StrLess(a.time, b.time, 1))

\* list.sort is stable: e goes after every element whose key is not greater
RECURSIVE InsertByKey(_, _)
InsertByKey(sorted, e) ==
    IF sorted = <<>> THEN <<e>>
    ELSE IF key_less(e, Head(sorted))
         THEN <<e>> \o sorted
         ELSE <<Head(sorted)>> \o InsertByKey(Tail(sorted), e)

RECURSIVE sort_events(_, _)
sort_events(evs, n) ==
    IF n = 0 THEN <<>> ELSE InsertByKey(sort_events(evs, n - 1), evs[n])

InitMerge ==
    /\ m_gcal \in SeqsUpTo(GcalEvents, MaxGcal)
    /\ m_tomme \in SeqsUpTo(TommeEvents, MaxOther)
    /\ m_holidays \in SeqsUpTo(HolidayEvents, MaxOther)
    /\ m_i = 0
    /\ m_events = <<>>
    /\ m_pc = "merge"
    /\ PlaceIdle /\ TextIdle /\ DayIdle /\ TagIdle /\ RowIdle /\ HdrIdle
    /\ FrameIdle /\ ColourIdle /\ MainIdle

\* one iteration of "for e in gcal + tomme + holidays"
MergeEvent ==
    /\ m_pc = "merge"
    /\ m_i < Len(MergeInput)
    /\ LET e == MergeInput[m_i + 1]
       IN  m_events' = IF \E k \in 1..Len(m_events) : same_event(m_events[k], e)
                       THEN m_events
                       ELSE Append(m_events, e)
    /\ m_i' = m_i + 1
    /\ UNCHANGED <<m_gcal, m_tomme, m_holidays, m_pc>>
    /\ UNCHANGED <<placeVars, textVars, dayVars, tagVars, rowVars, hdrVars, frameVars,
                   colourVars, mainVars>>

\* events.sort(key=lambda e: (e['date'], e.get('time', '')))
SortEvents ==
    /\ m_pc = "merge"
    /\ m_i = Len(MergeInput)
    /\ m_events' = sort_events(m_events, Len(m_events))
    /\ m_pc' = "done"
    /\ UNCHANGED <<m_gcal, m_tomme, m_holidays, m_i>>
    /\ UNCHANGED <<placeVars, textVars, dayVars, tagVars, rowVars, hdrVars, frameVars,
                   colourVars, mainVars>>

NextMerge == MergeEvent \/ SortEvents

SpecMerge == InitMerge /\ [][NextMerge]_vars

\* the key a duplicate is recognised by
MergeKey(e) == <<e.date, e.name, e.time>>

\* the first position of the merge input that carries the key of e
FirstWithKey(e) ==
    CHOOSE k \in 1..Len(MergeInput) :
        /\ MergeKey(MergeInput[k]) = MergeKey(e)
        /\ \A j \in 1..(k - 1) : MergeKey(MergeInput[j]) # MergeKey(e)

\* C22: after the merge no two events of the list share (date, name, time),
\* every event of the list is the first one of the merge input (calendar,
\* then waste collection, then holidays) with its key, every key of the input
\* is in the list, and the list is ordered by (date, time).
C22_MergedUniqueFirstSorted ==
    m_pc = "done" =>
        /\ \A i, j \in 1..Len(m_events) :
               i # j => MergeKey(m_events[i]) # MergeKey(m_events[j])
        /\ \A i \in 1..Len(m_events) :
               /\ \E k \in 1..Len(MergeInput) : MergeInput[k] = m_events[i]
               /\ m_events[i] = MergeInput[FirstWithKey(m_events[i])]
        /\ \A k \in 1..Len(MergeInput) :
               \E i \in 1..Len(m_events) : MergeKey(m_events[i]) = MergeKey(MergeInput[k])
        /\ \A i \in 1..(Len(m_events) - 1) : ~key_less(m_events[i + 1], m_events[i])

\* a calendar event and a holiday with the same key, and a later date first
C22_Witness ==
    /\ m_pc = "done"
    /\ Len(m_gcal) = 2 /\ Len(m_holidays) = 1
    /\ Len(m_events) = 2
    /\ MergeKey(m_holidays[1]) = MergeKey(m_gcal[2])
    /\ m_events[1] = m_gcal[2]
    /\ m_events[2] = m_gcal[1]

\* ------------------------------------------------------------------------
\* render_calendar and the data record of its caller
\* ------------------------------------------------------------------------
MaxFrameEvents == 2

\* an event as the caller hands it over; "" is an absent display_text
FrameNames == {"a", "b"}
FrameEvents == [name : FrameNames, display_text : {"", "z"}, tags : DayTags]

\* the fields apply_event_mapping returns, "" and <<>> for a field that is
\* absent or None; a call that raises counts as {}
MappedOutcomes == [display_text : {"", "m"}, tags : DayTags]

\* ev_copy = dict(ev), updated with the fields the mapping returns unless the
\* event carries tags already
mapped_event(ev, m) ==
    IF ev.tags # <<>> THEN ev
    ELSE [name |-> ev.name,
          display_text |-> IF m.display_text # "" THEN m.display_text ELSE ev.display_text,
          tags |-> IF m.tags # <<>> THEN m.tags ELSE ev.tags]

\* mapped_events
mapped_events(events, map) ==
    [k \in 1..Len(events) |-> mapped_event(events[k], map[events[k].name])]

InitFrame ==
    /\ f_events \in SeqsUpTo(FrameEvents, MaxFrameEvents)
    /\ f_callable \in BOOLEAN
    /\ f_map \in [FrameNames -> MappedOutcomes]
    /\ f_called = FALSE
    /\ PlaceIdle /\ TextIdle /\ DayIdle /\ TagIdle /\ RowIdle /\ HdrIdle
    /\ MergeIdle /\ ColourIdle /\ MainIdle

\* "if callable(apply_event_mapping): ... events = mapped_events;
\* data["events"] = events"; nothing else in render_calendar writes to data
\* or to an event
ApplyMapping ==
    /\ ~f_called
    /\ f_called' = TRUE
    /\ f_events' = IF f_callable THEN mapped_events(f_events, f_map) ELSE f_events
    /\ UNCHANGED <<f_callable, f_map>>
    /\ UNCHANGED <<placeVars, textVars, dayVars, tagVars, rowVars, hdrVars, mergeVars,
                   colourVars, mainVars>>

NextFrame == ApplyMapping

SpecFrame == InitFrame /\ [][NextFrame]_vars

\* C23: a render call leaves the events of the caller's data record as they
\* were, whether or not the keyword mapping is applied.
C23_InputUnchanged == [][f_events' = f_events]_vars

\* ------------------------------------------------------------------------
\* render_calendar from its first line: the canvas is created, then the
\* date is measured, placed and drawn
\* ------------------------------------------------------------------------
\* (width, height) of the call; with a height of 0 no box is placed
CanvasSizes == {<<-1, 80>>, <<62, -1>>, <<62, 0>>, <<0, 0>>, <<62, 80>>, <<122, 480>>}

\* Image.new("RGBA", (width, height), ...): Pillow refuses a negative width
\* or height with ValueError and accepts 0
image_new_raises(w, h) == w < 0 \/ h < 0

InitCanvas ==
    /\ \E size \in CanvasSizes : width = size[1] /\ height = size[2]
    /\ columns = 1
    /\ grid_gap = 5
    /\ date_heights = <<>>
    /\ di = 0
    /\ col_tops = [c \in 0..0 |-> margin_y]
    /\ current_col = 0
    /\ placements = <<>>
    /\ d_events \in SeqsUpTo(MoreEvents, MaxEvents)
    /\ d_max_lines \in 1..MaxEventLines
    /\ d_pc = "new"
    /\ d_total = box_header_height + top_padding + bottom_padding
    /\ d_meas = <<>>
    /\ d_cursor = 0
    /\ d_adv = <<>>
    /\ d_dotted = TRUE
    /\ d_rows = <<>>
    /\ d_show_more = TRUE
    /\ d_more = FALSE
    /\ TextIdle
    /\ OtherIdle

\* the options are read and the colours normalised (no use of width or
\* height), then the canvas is created; width and height are not looked at
\* before
NewCanvas ==
    /\ d_pc = "new"
    /\ d_pc' = IF image_new_raises(width, height) THEN "raised" ELSE "measure"
    /\ UNCHANGED <<d_events, d_max_lines, d_total, d_meas, d_cursor, d_adv,
                   d_dotted, d_rows, d_show_more, d_more>>
    /\ UNCHANGED placeVars
    /\ UNCHANGED textVars
    /\ UNCHANGED otherVars

NextCanvas ==
    NewCanvas \/ MeasureEvent \/ FinishMeasure \/ PlaceDate \/ SkipDate \/ DrawEvent
    \/ FinishRender

SpecCanvas == InitCanvas /\ [][NextCanvas]_vars

\* C24: with a zero or negative canvas width or height the call raises
\* before any measuring, placement or drawing step: it never gets past the
\* creation of the canvas.
C24_FailFastOnBadCanvas ==
    (width <= 0 \/ height <= 0) => d_pc \in {"new", "raised"}

\* ------------------------------------------------------------------------
\* The colour helpers _fg_for_bg and _normalize_color_input on any argument
\* ------------------------------------------------------------------------
\* the value of a hexadecimal digit, -1 for any other character
HexVal(ch) ==
    CASE ch = "0" -> 0
      [] ch = "2" -> 2
      [] ch = "3" -> 3
      [] ch = "8" -> 8
      [] ch = "b" -> 11
      [] ch = "c" -> 12
      [] ch = "f" -> 15
      [] OTHER -> -1

AllHex(s, from) == \A i \in from..Len(s) : HexVal(s[i]) # -1

\* int(s[i:i+2], 16)
HexPair(s, i) == 16 * HexVal(s[i]) + HexVal(s[i + 1])

\* int(s[i] * 2, 16)
HexTwice(s, i) == 17 * HexVal(s[i])

\* ImageColor.getrgb on a string written as a character sequence: "#rgb",
\* "#rgba", "#rrggbb" and "#rrggbbaa" are colours, <<>> stands for the
\* ValueError on anything else
hex_getrgb(s) ==
    IF s = <<>> \/ s[1] # "#" \/ ~AllHex(s, 2) THEN <<>>
    ELSE CASE Len(s) = 4 -> <<HexTwice(s, 2), HexTwice(s, 3), HexTwice(s, 4)>>
           [] Len(s) = 5 -> <<HexTwice(s, 2), HexTwice(s, 3), HexTwice(s, 4), HexTwice(s, 5)>>
           [] Len(s) = 7 -> <<HexPair(s, 2), HexPair(s, 4), HexPair(s, 6)>>
           [] Len(s) = 9 -> <<HexPair(s, 2), HexPair(s, 4), HexPair(s, 6), HexPair(s, 8)>>
           [] OTHER -> <<>>

\* _normalize_color_input, every branch; the argument is [kind, v] with kind
\* "none", "int", "rgb" (tuple or list), "name" and "hex" (strings) or
\* "other" (any other type)
ShortTupleAsIs(col) ==
    CASE col.kind = "int" -> <<Max(0, IF col.v < 255 THEN col.v ELSE 255),
                               Max(0, IF col.v < 255 THEN col.v ELSE 255),
                               Max(0, IF col.v < 255 THEN col.v ELSE 255)>>
      [] col.kind = "rgb" -> col.v
      [] col.kind = "name" -> normalize_color_input(col.v)
      [] col.kind = "hex" -> IF hex_getrgb(col.v) = <<>> THEN <<0, 0, 0>> ELSE hex_getrgb(col.v)
      [] OTHER -> <<0, 0, 0>>

normalize_color(col) ==
    CASE col.kind = "int" -> <<Max(0, IF col.v < 255 THEN col.v ELSE 255),
                               Max(0, IF col.v < 255 THEN col.v ELSE 255),
                               Max(0, IF col.v < 255 THEN col.v ELSE 255)>>
      [] col.kind = "rgb" -> IF Len(col.v) >= 3 THEN <<col.v[1], col.v[2], col.v[3]>>
                             ELSE <<0, 0, 0>>
      [] col.kind = "name" -> normalize_color_input(col.v)
      [] col.kind = "hex" -> IF hex_getrgb(col.v) = <<>> THEN <<0, 0, 0>> ELSE hex_getrgb(col.v)
      [] OTHER -> <<0, 0, 0>>

\* _fg_for_bg, every branch: None and a string that is not "#rgb" or
\* "#rrggbb" give black, as does any exception (a bad hex digit, a tuple
\* shorter than 3, an argument without items)
fg_of(col) ==
    CASE col.kind = "rgb" -> IF Len(col.v) >= 3
                             THEN fg_for_bg(<<col.v[1], col.v[2], col.v[3]>>)
                             ELSE <<0, 0, 0>>
      [] col.kind = "hex" ->
            IF col.v # <<>> /\ col.v[1] = "#" /\ Len(col.v) \in {4, 7} /\ AllHex(col.v, 2)
            THEN fg_for_bg(IF Len(col.v) = 7
                           THEN <<HexPair(col.v, 2), HexPair(col.v, 4), HexPair(col.v, 6)>>
                           ELSE <<HexTwice(col.v, 2), HexTwice(col.v, 3), HexTwice(col.v, 4)>>)
            ELSE <<0, 0, 0>>
      [] OTHER -> <<0, 0, 0>>

ColourChannels == {0, 128, 178, 179, 200, 255}
ColourTuples ==
    {<<>>, <<255>>, <<255, 0>>, <<255, 0, 0, 128>>, <<0, 0, 0, 0>>}
        \cup {<<r, g, b>> : r \in ColourChannels, g \in ColourChannels, b \in ColourChannels}
ColourHex ==
    {<<"#", "f", "f", "0", "0", "0", "0">>, <<"#", "0", "0", "0", "0", "0", "0">>,
     <<"#", "f", "f", "f", "f", "f", "f">>, <<"#", "b", "2", "b", "2", "b", "2">>,
     <<"#", "b", "3", "b", "3", "b", "3">>, <<"#", "8", "0", "c", "8", "0", "0">>,
     <<"#", "f", "0", "0">>, <<"#", "f", "f", "f">>, <<"#", "f", "0", "0", "8">>,
     <<"#", "f", "f", "0", "0", "0", "0", "8", "0">>,
     <<"#", "f", "f", "0", "0", "0">>, <<"#", "g", "g", "0", "0", "0", "0">>,
     <<"#", "f", "g">>, <<"f", "f", "0", "0", "0", "0">>, <<"#">>, <<>>}
ColourInputs ==
    {[kind |-> "none", v |-> <<>>], [kind |-> "other", v |-> <<>>]}
        \cup [kind : {"int"}, v : {-5, 0, 128, 255, 300}]
        \cup [kind : {"rgb"}, v : ColourTuples]
        \cup [kind : {"name"}, v : {"red", "black", "nocolor"}]
        \cup [kind : {"hex"}, v : ColourHex]

InitColour ==
    /\ k_col \in ColourInputs
    /\ k_called = {}
    /\ k_fg = <<>>
    /\ k_norm = <<>>
    /\ PlaceIdle /\ TextIdle /\ DayIdle /\ TagIdle /\ RowIdle /\ HdrIdle
    /\ MergeIdle /\ FrameIdle /\ MainIdle

CallFgForBg ==
    /\ "fg" \notin k_called
    /\ k_called' = k_called \cup {"fg"}
    /\ k_fg' = fg_of(k_col)
    /\ UNCHANGED <<k_col, k_norm>>
    /\ UNCHANGED <<placeVars, textVars, dayVars, tagVars, rowVars, hdrVars, mergeVars,
                   frameVars, mainVars>>

CallNormalizeColor ==
    /\ "norm" \notin k_called
    /\ k_called' = k_called \cup {"norm"}
    /\ k_norm' = normalize_color(k_col)
    /\ UNCHANGED <<k_col, k_fg>>
    /\ UNCHANGED <<placeVars, textVars, dayVars, tagVars, rowVars, hdrVars, mergeVars,
                   frameVars, mainVars>>

NextColour == CallFgForBg \/ CallNormalizeColor

SpecColour == InitColour /\ [][NextColour]_vars

\* ------------------------------------------------------------------------
\* Claims about the colour helpers (checked under SpecColour)
\* ------------------------------------------------------------------------
\* the argument denotes a background colour for _fg_for_bg: a tuple of at
\* least three channels, or a string "#rgb" or "#rrggbb"
IsBackground(col) ==
    \/ col.kind = "rgb" /\ Len(col.v) >= 3
    \/ col.kind = "hex" /\ hex_getrgb(col.v) # <<>> /\ Len(hex_getrgb(col.v)) = 3

BackgroundOf(col) ==
    IF col.kind = "rgb" THEN <<col.v[1], col.v[2], col.v[3]>> ELSE hex_getrgb(col.v)

\* C25: for a background of relative luminance below 0.45 _fg_for_bg returns
\* white; for any other background it returns white or black, whichever has
\* the higher contrast ratio (L1 + 0.05) / (L2 + 0.05) against it; white for
\* (0,0,0) and (255,0,0), black for (255,255,255).
C25_FgForBg ==
    ("fg" \in k_called /\ IsBackground(k_col)) =>
        LET l == l_bg(BackgroundOf(k_col))
            \* cr_white > cr_black and cr_black > cr_white, cross-multiplied
            white_better == (10000 + 500) * 500 > (l + 500) * (l + 500)
            black_better == (l + 500) * (l + 500) > (10000 + 500) * 500
        IN  /\ k_fg \in {<<255, 255, 255>>, <<0, 0, 0>>}
            /\ l < 4500 => k_fg = <<255, 255, 255>>
            /\ (l >= 4500 /\ white_better) => k_fg = <<255, 255, 255>>
            /\ (l >= 4500 /\ black_better) => k_fg = <<0, 0, 0>>
            /\ BackgroundOf(k_col) = <<0, 0, 0>> => k_fg = <<255, 255, 255>>
            /\ BackgroundOf(k_col) = <<255, 0, 0>> => k_fg = <<255, 255, 255>>
            /\ BackgroundOf(k_col) = <<255, 255, 255>> => k_fg = <<0, 0, 0>>

\* pure red, whose contrast against black is the higher one, got white
C25_Witness ==
    /\ "fg" \in k_called
    /\ k_col = [kind |-> "rgb", v |-> <<255, 0, 0>>]
    /\ k_fg = <<255, 255, 255>>

\* the argument is None or cannot be read as a colour: a name ImageColor
\* does not know, a string that is not "#" and 3, 4, 6 or 8 hex digits, a
\* tuple of fewer than three items
Unparseable(col) ==
    \/ col.kind = "none"
    \/ col.kind = "name" /\ col.v \notin {"red", "yellow", "blue", "black"}
    \/ col.kind = "hex" /\
          ~(/\ Len(col.v) \in {4, 5, 7, 9}
            /\ col.v[1] = "#"
            /\ \A i \in 2..Len(col.v) :
                   col.v[i] \in {"0", "2", "3", "8", "b", "c", "f"})
    \/ col.kind = "rgb" /\ Len(col.v) < 3

\* C26: _normalize_color_input returns a colour for every argument, black
\* for None and for an argument that cannot be read as a colour, and the
\* string "#ff0000" and the tuple (255, 0, 0) give the same colour.
C26_NormalizeTotal ==
    "norm" \in k_called =>
        /\ Len(k_norm) \in {3, 4}
        /\ Unparseable(k_col) => k_norm = <<0, 0, 0>>
        /\ k_col = [kind |-> "hex", v |-> <<"#", "f", "f", "0", "0", "0", "0">>] =>
               k_norm = <<255, 0, 0>>
        /\ k_col = [kind |-> "rgb", v |-> <<255, 0, 0>>] => k_norm = <<255, 0, 0>>

\* a tuple of two items came back as black
C26_Witness ==
    /\ "norm" \in k_called
    /\ k_col = [kind |-> "rgb", v |-> <<255, 0>>]
    /\ k_norm = <<0, 0, 0>>

\* ------------------------------------------------------------------------
\* main.py: fetch, render, fallback render, save
\* ------------------------------------------------------------------------
\* how a call ends: it returns, raises TypeError or raises another exception
Outcomes == {"ok", "type_error", "error"}

\* the run's environment: the outcome of the fetch and of its retry, of the
\* two calls of render_calendar _try_render_calendar may make for the
\* fetched data and for {}, and of the two ways of saving the JPEG
MainEnvs ==
    [fetch : Outcomes, refetch : Outcomes,
     render : Outcomes, rerender : {"ok", "error"},
     fallback : Outcomes, refallback : {"ok", "error"},
     save : {"ok", "error"}, resave : {"ok", "error"}]

InitMain ==
    /\ o_env \in MainEnvs
    /\ o_pc = "fetch"
    /\ o_data = "unset"
    /\ o_tries = <<>>
    /\ o_img = FALSE
    /\ o_saved = FALSE
    /\ o_exit = -1
    /\ PlaceIdle /\ TextIdle /\ DayIdle /\ TagIdle /\ RowIdle /\ HdrIdle
    /\ MergeIdle /\ FrameIdle /\ ColourIdle

MainFrame ==
    UNCHANGED <<placeVars, textVars, dayVars, tagVars, rowVars, hdrVars, mergeVars,
                frameVars, colourVars>>

\* "try: data = initial_fetch_all(days=args.days)"; "except Exception:
\* data = {}"; a TypeError goes to the other handler
Fetch ==
    /\ o_pc = "fetch"
    /\ o_data' = (CASE o_env.fetch = "ok" -> "fetched"
                     [] o_env.fetch = "error" -> "empty"
                     [] OTHER -> o_data)
    /\ o_pc' = IF o_env.fetch = "type_error" THEN "refetch" ELSE "render"
    /\ UNCHANGED <<o_env, o_tries, o_img, o_saved, o_exit>>
    /\ MainFrame

\* "except TypeError: data = initial_fetch_all(args.days)": the call is made
\* inside the handler, so an exception of it is caught by nothing and ends
\* the process with a traceback and status 1
Refetch ==
    /\ o_pc = "refetch"
    /\ IF o_env.refetch = "ok"
       THEN o_data' = "fetched" /\ o_pc' = "render" /\ o_exit' = o_exit
       ELSE o_data' = o_data /\ o_pc' = "exit" /\ o_exit' = 1
    /\ UNCHANGED <<o_env, o_tries, o_img, o_saved>>
    /\ MainFrame

\* a call of render_calendar and where _try_render_calendar goes from it:
\* to save when it returns, to the call with renderer_opts by keyword after
\* a TypeError, and out with the exception otherwise
RenderCall(site, data, outcome, retry_pc, raised_pc, raised_exit) ==
    /\ o_tries' = Append(o_tries, [site |-> site, data |-> data])
    /\ o_img' = (outcome = "ok")
    /\ o_pc' = (CASE outcome = "ok" -> "save"
                   [] outcome = "type_error" -> retry_pc
                   [] OTHER -> raised_pc)
    /\ o_exit' = IF outcome = "error" THEN raised_exit ELSE o_exit
    /\ UNCHANGED <<o_env, o_data, o_saved>>
    /\ MainFrame

\* "img = _try_render_calendar(data, render_opts, ...)": the first call
Render ==
    /\ o_pc = "render"
    /\ RenderCall("primary", o_data, o_env.render, "rerender", "fallback", o_exit)

\* _try_render_calendar, "except TypeError": the second call
Rerender ==
    /\ o_pc = "rerender"
    /\ RenderCall("primary", o_data, o_env.rerender, "rerender", "fallback", o_exit)

\* "except Exception: ... img = _try_render_calendar({}, render_opts, ...)";
\* "except Exception as e2: raise SystemExit(1)"
Fallback ==
    /\ o_pc = "fallback"
    /\ RenderCall("fallback", "empty", o_env.fallback, "refallback", "exit", 1)

Refallback ==
    /\ o_pc = "refallback"
    /\ RenderCall("fallback", "empty", o_env.refallback, "refallback", "exit", 1)

\* "try: save_jpeg_fast(img, out_path=args.out_jpg)"
Save ==
    /\ o_pc = "save"
    /\ o_saved' = (o_env.save = "ok")
    /\ IF o_env.save = "ok"
       THEN o_pc' = "exit" /\ o_exit' = 0
       ELSE o_pc' = "resave" /\ o_exit' = o_exit
    /\ UNCHANGED <<o_env, o_data, o_tries, o_img>>
    /\ MainFrame

\* "except Exception: try: img.convert("RGB").save(...) except Exception:
\* print(...)"; main returns
Resave ==
    /\ o_pc = "resave"
    /\ o_saved' = (o_env.resave = "ok")
    /\ o_pc' = "exit"
    /\ o_exit' = 0
    /\ UNCHANGED <<o_env, o_data, o_tries, o_img>>
    /\ MainFrame

NextMain ==
    Fetch \/ Refetch \/ Render \/ Rerender \/ Fallback \/ Refallback \/ Save \/ Resave

SpecMain == InitMain /\ [][NextMain]_vars

\* the calls of render_calendar made for a site
TriesAt(site) == {i \in 1..Len(o_tries) : o_tries[i].site = site}

\* the fetch raised and gave no data: the first call raised and, after a
\* TypeError, so did the second
FetchFailed ==
    \/ o_env.fetch = "error"
    \/ o_env.fetch = "type_error" /\ o_env.refetch # "ok"

\* C30: main degrades in a fixed order: after a failed fetch the data is
\* empty and the render is still attempted; the fallback render, with empty
\* data, is attempted only after the render of the data and at most once
\* (counting the retry after a TypeError with it); the process exits with
\* status 1 only when the fallback render was attempted and raised; an image
\* is saved only when a render has returned one.
C30_DegradesInOrder ==
    /\ (FetchFailed /\ o_pc \notin {"fetch", "refetch"}) =>
           /\ o_data = "empty"
           /\ o_pc = "exit" => TriesAt("primary") # {}
    /\ \A i \in TriesAt("fallback") :
           /\ o_tries[i].data = "empty"
           /\ \E j \in TriesAt("primary") : j < i
    /\ Cardinality(TriesAt("fallback")) <= 2
    /\ o_exit = 1 => (TriesAt("fallback") # {} /\ ~o_img)
    /\ o_saved => o_img

====
